---- MODULE Spec2Model ----
(***************************************************************************)
(* Fuzzy Joiner: the hierarchical multi-key matching engine (runJoin in    *)
(* src/App.tsx) and the string utilities it rests on (src/utils.ts).       *)
(*                                                                         *)
(* Strings are sequences of one-character strings, so that normalisation,  *)
(* edit distance and phonetic coding are computed character by character.  *)
(***************************************************************************)
EXTENDS Integers, Sequences, FiniteSets, TLC

VARIABLES
    step,                 \* App state: 'upload' | 'config' | 'results'
    tableA,               \* App state: master dataset (its rows)
    tableB,               \* App state: target dataset (its rows)
    joinConfig,           \* App state: the join configuration
    results,              \* App state: committed result rows
    unmatchedTargetRows,  \* App state: committed unused target rows
    isMatching,           \* App state: a join execution is in progress
    matchStats,           \* App state: [matched, unmatched]
    processLogs,          \* App state: the process log
    pc,                   \* runJoin: the await it is suspended at
    run,                  \* runJoin: its locals (closure and loop results)
    call,                 \* utility harness: the function applied and its arguments
    ret                   \* utility harness: the values it returned, in order

vars == <<step, tableA, tableB, joinConfig, results, unmatchedTargetRows,
          isMatching, matchStats, processLogs, pc, run, call, ret>>

appVars == <<step, tableA, tableB, joinConfig, results, unmatchedTargetRows,
             isMatching, matchStats, processLogs, pc, run>>

----------------------------------------------------------------------------
(* Bounds of the model *)

MaxNormLen == 3
MaxSimLen == 50
MaxMasterRows == 2
MaxTargetRows == 2
MaxSymLen == 3
\* The most key pairs a configuration under edit holds
MaxKeyPairs == 3
MaxPhoneticLen == 5
MaxSemanticValues == 2

----------------------------------------------------------------------------
(* Characters *)

LowerLetters ==
    <<"a","b","c","d","e","f","g","h","i","j","k","l","m",
      "n","o","p","q","r","s","t","u","v","w","x","y","z">>

UpperLetters ==
    <<"A","B","C","D","E","F","G","H","I","J","K","L","M",
      "N","O","P","Q","R","S","T","U","V","W","X","Y","Z">>

LetterIdx == 1..26
LowerSet == {LowerLetters[i] : i \in LetterIdx}
UpperSet == {UpperLetters[i] : i \in LetterIdx}

IsLower(c) == c \in LowerSet
IsUpper(c) == c \in UpperSet
IsLetter(c) == IsLower(c) \/ IsUpper(c)

DigitChars == {"0","1","2","3","4","5","6","7","8","9"}
IsDigit(c) == c \in DigitChars

\* The characters the regular expression class \s and String.trim() treat as
\* white space, as far as the model's alphabet has them.
WhitespaceChars == {" ", "\t"}
IsSpace(c) == c \in WhitespaceChars

LowerOf == [c \in UpperSet |-> LowerLetters[CHOOSE i \in LetterIdx : UpperLetters[i] = c]]
UpperOf == [c \in LowerSet |-> UpperLetters[CHOOSE i \in LetterIdx : LowerLetters[i] = c]]

ToLowerChar(c) == IF IsUpper(c) THEN LowerOf[c] ELSE c
ToUpperChar(c) == IF IsLower(c) THEN UpperOf[c] ELSE c

MapChars(Op(_), s) == [i \in 1..Len(s) |-> Op(s[i])]

toLowerCase(s) == MapChars(ToLowerChar, s)
toUpperCase(s) == MapChars(ToUpperChar, s)

----------------------------------------------------------------------------
(* for (i = lo; i <= hi; i++) x = Body(x, i): the iterations run in the     *)
(* order of the loop. The range is halved, and the first half evaluated     *)
(* before the second is entered, only to keep TLC's evaluation shallow.     *)

RECURSIVE ForLoop(_, _, _, _)
ForLoop(Body(_, _), x, lo, hi) ==
    IF lo > hi THEN x
    ELSE IF lo = hi THEN Body(x, lo)
    ELSE LET mid == (lo + hi) \div 2
             half == ForLoop(Body, x, lo, mid)
         IN  IF half = half THEN ForLoop(Body, half, mid + 1, hi) ELSE half

\* const value = ...; body: a value computed once and then used under a name
With(value, Body(_)) == Body(value)

\* if (flag) s = Op(s)
ApplyIf(flag, Op(_), s) == IF flag THEN Op(s) ELSE s

----------------------------------------------------------------------------
(* Cell values: string | number | null, and undefined for an absent key *)

StrCell(s) == [kind |-> "string", s |-> s]
NumCell(digits) == [kind |-> "number", s |-> digits]
NullCell == [kind |-> "null", s |-> <<>>]
UndefinedCell == [kind |-> "undefined", s |-> <<>>]

\* String(value) for a value that is neither null nor undefined. A number
\* cell carries its decimal rendering.
StringOf(value) == value.s

----------------------------------------------------------------------------
(* normalizeString *)

RECURSIVE TrimStart(_)
TrimStart(s) ==
    IF s # <<>> /\ IsSpace(Head(s)) THEN TrimStart(Tail(s)) ELSE s

RECURSIVE TrimEnd(_)
TrimEnd(s) ==
    IF s # <<>> /\ IsSpace(s[Len(s)]) THEN TrimEnd(SubSeq(s, 1, Len(s) - 1)) ELSE s

trim(s) == TrimEnd(TrimStart(s))

\* str.replace(/[^a-zA-Z0-9\s|]/g, '')
KeepsSpecial(c) == IsLetter(c) \/ IsDigit(c) \/ IsSpace(c) \/ c = "|"
RemoveSpecialChars(s) == SelectSeq(s, KeepsSpecial)

\* str.replace(/[0-9]/g, '')
NotDigit(c) == ~IsDigit(c)
RemoveNumbers(s) == SelectSeq(s, NotDigit)

\* str.replace(/\s+/g, ' ')
RECURSIVE CollapseSpaces(_)
CollapseSpaces(s) ==
    IF s = <<>> THEN <<>>
    ELSE IF IsSpace(Head(s))
         THEN <<" ">> \o CollapseSpaces(TrimStart(s))
         ELSE <<Head(s)>> \o CollapseSpaces(Tail(s))

\* normalizeString without its first line: String(null), String(undefined)
normalizeStringUnguarded(value, config) ==
    CollapseSpaces(
        ApplyIf(config.removeNumbers, RemoveNumbers,
            ApplyIf(config.removeSpecialChars, RemoveSpecialChars,
                ApplyIf(config.trimWhitespace, trim,
                    ApplyIf(config.toLowerCase, toLowerCase,
                        IF value.kind = "null" THEN <<"n", "u", "l", "l">>
                        ELSE IF value.kind = "undefined"
                             THEN <<"u", "n", "d", "e", "f", "i", "n", "e", "d">>
                             ELSE StringOf(value))))))

\* normalizeString with the case of the letters kept
normalizeStringKeepCase(value, config) ==
    IF value.kind \in {"null", "undefined"} THEN <<>>
    ELSE CollapseSpaces(
             ApplyIf(config.removeNumbers, RemoveNumbers,
                 ApplyIf(config.removeSpecialChars, RemoveSpecialChars,
                     ApplyIf(config.trimWhitespace, trim, StringOf(value)))))

normalizeString(value, config) ==
    IF value.kind \in {"null", "undefined"} THEN <<>>
    ELSE CollapseSpaces(
             ApplyIf(config.removeNumbers, RemoveNumbers,
                 ApplyIf(config.removeSpecialChars, RemoveSpecialChars,
                     ApplyIf(config.trimWhitespace, trim,
                         ApplyIf(config.toLowerCase, toLowerCase, StringOf(value))))))

NormalizationConfigs ==
    [removeSpecialChars : BOOLEAN, removeNumbers : BOOLEAN,
     toLowerCase : BOOLEAN, trimWhitespace : BOOLEAN]

\* The normalization of the initial join configuration.
DefaultNormalization ==
    [removeSpecialChars |-> TRUE, removeNumbers |-> FALSE,
     toLowerCase |-> TRUE, trimWhitespace |-> TRUE]

----------------------------------------------------------------------------
(* levenshteinDistance: the full dynamic-programming matrix, row by row.    *)
(* Row i of the matrix is a sequence whose element j + 1 is matrix[i][j].   *)

Min2(x, y) == IF x < y THEN x ELSE y

\* matrix[0]: firstRow[j] = j
LevFirstRow(an) == [j \in 1..(an + 1) |-> j - 1]

\* matrix[i][j] without the insertion term matrix[i][j - 1] + 1
LevCellNoInsertion(a, bChar, prevRow, row, j) ==
    IF bChar = a[j]
    THEN prevRow[j]
    ELSE Min2(prevRow[j] + 1, prevRow[j + 1] + 1)

\* matrix[i][j], given matrix[i - 1] and matrix[i][0..j-1]
LevCell(a, bChar, prevRow, row, j) ==
    IF bChar = a[j]
    THEN prevRow[j]                                \* matrix[i-1][j-1]
    ELSE Min2(prevRow[j] + 1,                      \* substitution
              Min2(row[j] + 1,                     \* insertion
                   prevRow[j + 1] + 1))            \* deletion

\* for (j = 1; j <= an; ++j): matrix[i], given matrix[i - 1]; row[0] = i
LevFillRow(a, bChar, prevRow, i) ==
    ForLoop(LAMBDA row, j : Append(row, LevCell(a, bChar, prevRow, row, j)),
            <<i>>, 1, Len(a))

\* for (i = 1; i <= bn; ++i): matrix[bn]
LevRows(a, b) ==
    ForLoop(LAMBDA prevRow, i : LevFillRow(a, b[i], prevRow, i),
            LevFirstRow(Len(a)), 1, Len(b))

levenshteinDistance(a, b) ==
    LET an == Len(a)
        bn == Len(b)
    IN  IF an = 0 THEN bn
        ELSE IF bn = 0 THEN an
        ELSE LevRows(a, b)[an + 1]

----------------------------------------------------------------------------
(* IEEE 754 double precision, for the quotient and product that decide the  *)
(* threshold test. A positive double is [m, e]: m is its 53-bit significand *)
(* (most significant bit first, the first bit 1) and its value is m * 2^e.  *)
(* Zero has the empty significand.                                          *)

SignificandBits == 53

FloatZero == [m |-> <<>>, e |-> 0]

RECURSIVE BitsToNat(_)
BitsToNat(bits) ==
    IF bits = <<>> THEN 0
    ELSE 2 * BitsToNat(SubSeq(bits, 1, Len(bits) - 1)) + bits[Len(bits)]

\* bits + 1, one bit longer when every bit is 1
RECURSIVE BitsIncrement(_)
BitsIncrement(bits) ==
    IF bits = <<>> THEN <<1>>
    ELSE IF bits[Len(bits)] = 0
         THEN SubSeq(bits, 1, Len(bits) - 1) \o <<1>>
         ELSE BitsIncrement(SubSeq(bits, 1, Len(bits) - 1)) \o <<0>>

\* Round to nearest, ties to even: `bits` (first bit 1, at least 53 bits) is
\* the exact value's leading bits, `sticky` says whether anything non-zero
\* follows them; the value is bits * 2^e (plus the sticky remainder).
RoundToDouble(bits, sticky, e) ==
    LET n == Len(bits)
        kept == SubSeq(bits, 1, SignificandBits)
        rest == SubSeq(bits, SignificandBits + 1, n)
        guard == IF rest = <<>> THEN 0 ELSE rest[1]
        below == sticky \/ \E i \in 2..Len(rest) : rest[i] = 1
        up == guard = 1 /\ (below \/ kept[SignificandBits] = 1)
        e1 == e + (n - SignificandBits)
        inc == BitsIncrement(kept)
    IN  IF ~up THEN [m |-> kept, e |-> e1]
        ELSE IF Len(inc) = SignificandBits THEN [m |-> inc, e |-> e1]
        ELSE [m |-> SubSeq(inc, 1, SignificandBits), e |-> e1 + 1]

\* One step of binary long division by d: the next bit of the quotient.
QuotientStep(q, d) ==
    IF 2 * q.rem >= d
    THEN [bits |-> Append(q.bits, 1), rem |-> 2 * q.rem - d]
    ELSE [bits |-> Append(q.bits, 0), rem |-> 2 * q.rem]

\* The binary expansion of r / d (0 <= r < d): its first n bits after the
\* point, and the remainder left after them.
QuotientBits(r, d, n) ==
    ForLoop(LAMBDA q, i : QuotientStep(q, d), [bits |-> <<>>, rem |-> r], 1, n)

\* The number of doublings that bring k up to at least d.
RECURSIVE ShiftUp(_, _)
ShiftUp(k, d) == IF k >= d THEN 0 ELSE 1 + ShiftUp(2 * k, d)

RECURSIVE Pow2(_)
Pow2(n) == IF n = 0 THEN 1 ELSE 2 * Pow2(n - 1)

\* The double nearest to k / d, for integers 0 <= k <= d, d > 0.
FloatDivide(k, d) ==
    IF k = 0 THEN FloatZero
    ELSE LET sh == ShiftUp(k, d)
             k1 == k * Pow2(sh)          \* d <= k1 < 2 * d
             q == QuotientBits(k1 - d, d, SignificandBits)
         IN  RoundToDouble(<<1>> \o q.bits, q.rem # 0, 0 - sh - SignificandBits)

RECURSIVE NatToBits(_)
NatToBits(n) == IF n = 0 THEN <<>> ELSE Append(NatToBits(n \div 2), n % 2)

\* The school multiplication of a bit sequence by a small positive integer c,
\* from the least significant bit: after n steps `out` holds the low n bits
\* of the product and `carry` what goes into the next position.
BitsTimesStep(bits, c, p, n) ==
    LET d == bits[Len(bits) - n + 1] * c + p.carry
    IN  [out |-> <<d % 2>> \o p.out, carry |-> d \div 2]

\* bits * c as a bit sequence
BitsTimes(bits, c) ==
    LET p == ForLoop(LAMBDA q, n : BitsTimesStep(bits, c, q, n),
                     [out |-> <<>>, carry |-> 0], 1, Len(bits))
    IN  NatToBits(p.carry) \o p.out

\* The double nearest to x * c.
FloatTimes(x, c) ==
    IF x.m = <<>> THEN FloatZero
    ELSE RoundToDouble(BitsTimes(x.m, c), FALSE, x.e)

\* x >= t for a double x >= 0 below 2^52 and an integer t >= 0: the integer
\* part of x is the part of its significand above the binary point.
FloatIntegerPart(x) ==
    IF x.m = <<>> \/ SignificandBits + x.e <= 0 THEN 0
    ELSE BitsToNat(SubSeq(x.m, 1, SignificandBits + x.e))

FloatAtLeast(x, t) == FloatIntegerPart(x) >= t

----------------------------------------------------------------------------
(* similarityPercentage *)

\* The quotient of similarityPercentage, with the two integers it is made of
SimilarityOf(longerLength, editDistance) ==
    [longerLength |-> longerLength,
     editDistance |-> editDistance,
     value |-> IF longerLength = 0 THEN FloatDivide(1, 1)
               ELSE FloatDivide(longerLength - editDistance, longerLength)]

\* similarityPercentage with b taken as the shorter string whatever its length
similarityPercentageShorterB(a, b) ==
    LET longer == IF Len(a) > Len(b) THEN a ELSE b
    IN  SimilarityOf(Len(longer),
                     IF Len(longer) = 0 THEN 0 ELSE levenshteinDistance(longer, b))

similarityPercentage(a, b) ==
    LET longer == IF Len(a) > Len(b) THEN a ELSE b
        shorter == IF Len(a) > Len(b) THEN b ELSE a
    IN  SimilarityOf(Len(longer),
                     IF Len(longer) = 0 THEN 0 ELSE levenshteinDistance(longer, shorter))

----------------------------------------------------------------------------
(* getPhoneticCode *)

PhoneticVowels == {"A", "E", "I", "O", "U", "H", "W", "Y"}
NotPhoneticVowel(c) == c \notin PhoneticVowels

PhoneticDigit(c) ==
    IF c \in {"B", "F", "P", "V"} THEN "1"
    ELSE IF c \in {"C", "G", "J", "K", "Q", "S", "X", "Z"} THEN "2"
    ELSE IF c \in {"D", "T"} THEN "3"
    ELSE IF c = "L" THEN "4"
    ELSE IF c \in {"M", "N"} THEN "5"
    ELSE IF c = "R" THEN "6"
    ELSE c

\* s.replace(/(.)\1+/g, '$1')
CollapseRuns(s) ==
    SelectSeq([i \in 1..Len(s) |-> IF i > 1 /\ s[i] = s[i - 1] THEN "" ELSE s[i]],
              LAMBDA c : c # "")

\* s.substring(1)
Substring1(s) == IF s = <<>> THEN <<>> ELSE Tail(s)

\* .substring(0, 4).padEnd(4, '0')
PhoneticCodeLength == 4
\* .substring(0, 4) alone
PadEndMissing(s) == SubSeq(s, 1, Min2(Len(s), PhoneticCodeLength))

PadEnd(s) == [i \in 1..PhoneticCodeLength |-> IF i <= Len(s) THEN s[i] ELSE "0"]

\* The string that `undefined + ...` concatenates when str is empty.
UndefinedText == <<"u", "n", "d", "e", "f", "i", "n", "e", "d">>

\* firstLetter + s.substring(1)
PhoneticStem(str) ==
    LET s0 == toUpperCase(str)
        firstLetter == IF s0 = <<>> THEN UndefinedText ELSE <<s0[1]>>
        s1 == SelectSeq(s0, NotPhoneticVowel)
        s2 == MapChars(PhoneticDigit, s1)
        s3 == CollapseRuns(s2)
    IN  firstLetter \o Substring1(s3)

getPhoneticCode(str) == PadEnd(PhoneticStem(str))

----------------------------------------------------------------------------
(* Scores: accumulatedScore, bestScoreForThisKey and score are doubles. The *)
(* model keeps each as the exact fraction num / den it approximates.        *)

Rat(n) == [num |-> n, den |-> 1]

RatAdd(x, y) ==
    IF x.den = y.den THEN [num |-> x.num + y.num, den |-> x.den]
    ELSE [num |-> x.num * y.den + y.num * x.den, den |-> x.den * y.den]

RatDivide(x, n) == [num |-> x.num, den |-> x.den * n]

\* Math.round: the nearest integer, halves upwards
MathRound(x) == (2 * x.num + x.den) \div (2 * x.den)

\* similarityPercentage(valA, valB) * 100 as a score
SimilarityScore(similarity) ==
    IF similarity.longerLength = 0 THEN Rat(100)
    ELSE [num |-> (similarity.longerLength - similarity.editDistance) * 100,
          den |-> similarity.longerLength]

\* const sim = similarityPercentage(valA, valB) * 100;
\* if (sim >= joinConfig.threshold) ...
ApproxVerdict(similarity, threshold) ==
    FloatAtLeast(FloatTimes(similarity.value, 100), threshold)

----------------------------------------------------------------------------
(* Rows, datasets and maps *)

\* row[col]: undefined when the row has no such key
Access(row, col) == IF col \in DOMAIN row THEN row[col] ELSE UndefinedCell

\* obj[key] = value
Assign(obj, key, value) ==
    [x \in DOMAIN obj \cup {key} |-> IF x = key THEN value ELSE obj[x]]

EmptyMap == [x \in {} |-> <<>>]

MapHas(map, key) == key \in DOMAIN map

NoDataset == [isNull |-> TRUE, columns |-> <<>>, data |-> <<>>]

EXACT == "EXACT"
LEVENSHTEIN == "LEVENSHTEIN"
PHONETIC == "PHONETIC"
AI_SEMANTIC == "AI_SEMANTIC"

----------------------------------------------------------------------------
(* runJoin: the target index *)

\* IndexRow with the default toggles in place of the configured ones
IndexRowDefault(lookupData, col, normalization, indexMap, idx) ==
    With(normalizeString(Access(lookupData[idx + 1], col), DefaultNormalization),
         LAMBDA val :
            IF val # <<>>
            THEN Assign(indexMap, val,
                        Append(IF MapHas(indexMap, val) THEN indexMap[val] ELSE <<>>,
                               idx))
            ELSE indexMap)

\* lookupData.forEach((row, idx) => { ... }) for one right-hand column
IndexRow(lookupData, col, normalization, indexMap, idx) ==
    With(normalizeString(Access(lookupData[idx + 1], col), normalization),
         LAMBDA val :
            IF val # <<>>
            THEN Assign(indexMap, val,
                        Append(IF MapHas(indexMap, val) THEN indexMap[val] ELSE <<>>,
                               idx))
            ELSE indexMap)

BuildIndexMap(lookupData, col, normalization) ==
    ForLoop(LAMBDA indexMap, n : IndexRow(lookupData, col, normalization, indexMap, n - 1),
            EmptyMap, 1, Len(lookupData))

\* for (const kp of keyPairs) { if (!targetIndices[col]) ... }
BuildTargetIndices(lookupData, config) ==
    ForLoop(LAMBDA targetIndices, k :
                LET col == config.joinKeys[k].right
                IN  IF col \in DOMAIN targetIndices THEN targetIndices
                    ELSE Assign(targetIndices, col,
                                BuildIndexMap(lookupData, col, config.normalization)),
            EmptyMap, 1, Len(config.joinKeys))

----------------------------------------------------------------------------
(* runJoin: the cascade over the key pairs of one master row *)

\* The scorers applied to one candidate of a scan, in the order of the code
\* (lines 190-213). `method` is methodForThisKey before the candidate, `same`
\* is valA === valB, `samePhonetic` the equality of the two phonetic codes.
\* The scorers with the approximate one accepting every similarity
ScoreVerdictNoThreshold(algs, threshold, method, same, samePhonetic, similarity) ==
    LET exact == same /\ EXACT \in algs
        phonetic == ~exact /\ PHONETIC \in algs /\ samePhonetic
        approx == ~exact /\ ~phonetic /\ LEVENSHTEIN \in algs
    IN  [isMatch |-> exact \/ phonetic \/ approx,
         score |-> IF exact THEN Rat(100)
                   ELSE IF phonetic THEN Rat(90)
                   ELSE IF approx THEN SimilarityScore(similarity)
                   ELSE Rat(0),
         by |-> IF exact THEN EXACT
                ELSE IF phonetic THEN PHONETIC
                ELSE IF approx THEN LEVENSHTEIN
                ELSE "NONE",
         method |-> method]

\* The scorers with the phonetic one consulted first
ScoreVerdictPhoneticFirst(algs, threshold, method, same, samePhonetic, similarity) ==
    LET phonetic == PHONETIC \in algs /\ samePhonetic
        exact == ~phonetic /\ same /\ EXACT \in algs
        tryApprox == ~exact /\ ~phonetic /\ LEVENSHTEIN \in algs
    IN  With(tryApprox /\ ApproxVerdict(similarity, threshold),
             LAMBDA approx :
                [isMatch |-> exact \/ phonetic \/ approx,
                 score |-> IF exact THEN Rat(100)
                           ELSE IF phonetic THEN Rat(90)
                           ELSE IF approx THEN SimilarityScore(similarity)
                           ELSE Rat(0),
                 by |-> IF exact THEN EXACT
                        ELSE IF phonetic THEN PHONETIC
                        ELSE IF approx THEN LEVENSHTEIN
                        ELSE "NONE",
                 method |-> method])

ScoreVerdict(algs, threshold, method, same, samePhonetic, similarity) ==
    LET exact == same /\ EXACT \in algs
        phonetic == ~exact /\ PHONETIC \in algs /\ samePhonetic
        tryApprox == ~exact /\ ~phonetic /\ LEVENSHTEIN \in algs
    IN  With(tryApprox /\ ApproxVerdict(similarity, threshold),
             LAMBDA approx :
                [isMatch |-> exact \/ phonetic \/ approx,
                 score |-> IF exact THEN Rat(100)
                           ELSE IF phonetic THEN Rat(90)
                           ELSE IF approx THEN SimilarityScore(similarity)
                           ELSE Rat(0),
                 by |-> IF exact THEN EXACT
                        ELSE IF phonetic THEN PHONETIC
                        ELSE IF approx THEN LEVENSHTEIN
                        ELSE "NONE",
                 method |-> IF exact THEN EXACT
                            ELSE IF phonetic
                                 THEN (IF method # EXACT THEN PHONETIC ELSE method)
                            ELSE IF approx
                                 THEN (IF method # EXACT /\ method # PHONETIC
                                       THEN LEVENSHTEIN ELSE method)
                            ELSE method])

ScoreCandidate(valA, phoneticA, valB, config, method) ==
    ScoreVerdict(config.algorithms, config.threshold, method,
                 valA = valB,
                 getPhoneticCode(valB) = phoneticA,
                 similarityPercentage(valA, valB))

\* for (const idx of candidateIndices) { ... }: one candidate of the scan
ScanCandidate(lookupData, targetCol, valA, phoneticA, config, scan, idx) ==
    With(ScoreCandidate(valA, phoneticA,
                        normalizeString(Access(lookupData[idx + 1], targetCol),
                                        config.normalization),
                        config, scan.methodForThisKey),
         LAMBDA verdict :
            IF verdict.isMatch
            THEN [nextCandidates |-> Append(scan.nextCandidates, idx),
                  accumulatedScore |-> RatAdd(scan.accumulatedScore, verdict.score),
                  methodForThisKey |-> verdict.method,
                  verdicts |-> Append(scan.verdicts,
                                      [idx |-> idx, score |-> verdict.score,
                                       by |-> verdict.by])]
            ELSE [scan EXCEPT !.methodForThisKey = verdict.method])

\* Lines 184-219: the scan of candidateIndices for one key pair
Scan(lookupData, targetCol, valA, config, candidateIndices, accumulatedScore) ==
    With(getPhoneticCode(valA),
         LAMBDA phoneticA :
            ForLoop(LAMBDA scan, n :
                        ScanCandidate(lookupData, targetCol, valA, phoneticA, config,
                                      scan, candidateIndices[n]),
                    [nextCandidates |-> <<>>,
                     accumulatedScore |-> accumulatedScore,
                     methodForThisKey |-> EXACT,
                     verdicts |-> <<>>],
                    1, Len(candidateIndices)))

AllTargetPositions(lookupData) == [n \in 1..Len(lookupData) |-> n - 1]

\* The first-key branch with the bucket adopted under the exact scorer only
FirstKeyExactOnly(indexMap, valA, algs, lookupData, st) ==
    LET adopt == st.isNull /\ MapHas(indexMap, valA) /\ EXACT \in algs
        fullScan == st.isNull /\ ~adopt
                    /\ (LEVENSHTEIN \in algs \/ PHONETIC \in algs)
    IN  [adopt |-> adopt,
         isNull |-> st.isNull /\ ~fullScan,
         candidateIndices |-> IF fullScan THEN AllTargetPositions(lookupData)
                              ELSE st.candidateIndices,
         nextCandidates |-> IF adopt THEN indexMap[valA] ELSE <<>>]

\* Lines 168-181: the first-key branch. `isNull` is candidateIndices === null.
FirstKey(indexMap, valA, algs, lookupData, st) ==
    LET adopt == st.isNull /\ MapHas(indexMap, valA)
                 /\ (EXACT \in algs \/ LEVENSHTEIN \in algs)
        fullScan == st.isNull /\ ~adopt
                    /\ (LEVENSHTEIN \in algs \/ PHONETIC \in algs)
    IN  [adopt |-> adopt,
         isNull |-> st.isNull /\ ~fullScan,
         candidateIndices |-> IF fullScan THEN AllTargetPositions(lookupData)
                              ELSE st.candidateIndices,
         nextCandidates |-> IF adopt THEN indexMap[valA] ELSE <<>>]

\* Lines 183-229, given the first-key branch `fk` and the scan (used when it runs)
KeyResult(st, k, valA, fk, scan) ==
    LET doScan == ~fk.isNull /\ Len(fk.nextCandidates) = 0
        survived == doScan /\ Len(scan.nextCandidates) > 0
        nextCandidates == IF doScan THEN scan.nextCandidates ELSE fk.nextCandidates
        bestScoreForThisKey ==
            IF fk.adopt THEN Rat(100)
            ELSE IF survived
                 THEN RatDivide(scan.accumulatedScore, Len(scan.nextCandidates))
                 ELSE Rat(0)
        accBefore == IF survived THEN Rat(0)
                     ELSE IF doScan THEN scan.accumulatedScore
                     ELSE st.accumulatedScore
    IN  [isNull |-> FALSE,
         candidateIndices |-> nextCandidates,
         accumulatedScore |-> RatAdd(accBefore, bestScoreForThisKey),
         steps |-> Append(st.steps,
                     [k |-> k,
                      valA |-> valA,
                      route |-> IF fk.adopt THEN "bucket"
                                ELSE IF doScan THEN "scan" ELSE "none",
                      scanned |-> IF doScan THEN fk.candidateIndices ELSE <<>>,
                      verdicts |-> IF doScan THEN scan.verdicts ELSE <<>>,
                      candidateIndices |-> nextCandidates,
                      bestScoreForThisKey |-> bestScoreForThisKey,
                      methodForThisKey |-> IF doScan THEN scan.methodForThisKey
                                           ELSE EXACT])]

\* One iteration of for (let k = 0; k < keyPairs.length; k++), k counted from 1.
\* `st` holds candidateIndices (isNull when null) and accumulatedScore.
KeyStep(rowA, lookupData, targetIndices, config, st, k) ==
    With(normalizeString(Access(rowA, config.joinKeys[k].left), config.normalization),
         LAMBDA valA :
            With(FirstKey(targetIndices[config.joinKeys[k].right], valA,
                          config.algorithms, lookupData, st),
                 LAMBDA fk :
                    KeyResult(st, k, valA, fk,
                              Scan(lookupData, config.joinKeys[k].right, valA, config,
                                   fk.candidateIndices, st.accumulatedScore))))

\* The loop over the key pairs without its break
RECURSIVE CascadeNoBreak(_, _, _, _, _, _)
CascadeNoBreak(rowA, lookupData, targetIndices, config, st, k) ==
    IF k > Len(config.joinKeys) THEN st
    ELSE With(KeyStep(rowA, lookupData, targetIndices, config, st, k),
              LAMBDA st1 :
                 CascadeNoBreak(rowA, lookupData, targetIndices, config, st1, k + 1))

\* The loop over the key pairs, left at the first empty candidate list.
RECURSIVE Cascade(_, _, _, _, _, _)
Cascade(rowA, lookupData, targetIndices, config, st, k) ==
    IF k > Len(config.joinKeys) THEN st
    ELSE With(KeyStep(rowA, lookupData, targetIndices, config, st, k),
              LAMBDA st1 :
                 IF Len(st1.candidateIndices) = 0 THEN st1
                 ELSE Cascade(rowA, lookupData, targetIndices, config, st1, k + 1))

CascadeStart ==
    [isNull |-> TRUE, candidateIndices |-> <<>>, accumulatedScore |-> Rat(0),
     steps |-> <<>>]

----------------------------------------------------------------------------
(* runJoin: one master row, and the loop over the master rows *)

\* The last surviving candidate as the winner
ResolveLast(casc, config) ==
    LET found == ~casc.isNull /\ Len(casc.candidateIndices) > 0
        rounded == MathRound(RatDivide(casc.accumulatedScore, Len(config.joinKeys)))
        capped == Min2(rounded, 100)
    IN  [matchFound |-> found,
         matchIndex |-> IF found THEN casc.candidateIndices[Len(casc.candidateIndices)]
                        ELSE -1,
         finalScore |-> IF ~found THEN 0 ELSE IF capped = 0 THEN 100 ELSE capped]

\* The winner with the rounded total as its score: neither divided by the
\* number of key pairs nor capped
ResolveTotal(casc, config) ==
    LET found == ~casc.isNull /\ Len(casc.candidateIndices) > 0
    IN  [matchFound |-> found,
         matchIndex |-> IF found THEN casc.candidateIndices[1] ELSE -1,
         finalScore |-> IF found THEN MathRound(casc.accumulatedScore) ELSE 0]

\* Lines 232-242: the winner and its score
Resolve(casc, config) ==
    LET found == ~casc.isNull /\ Len(casc.candidateIndices) > 0
        rounded == MathRound(RatDivide(casc.accumulatedScore, Len(config.joinKeys)))
        capped == Min2(rounded, 100)
    IN  [matchFound |-> found,
         matchIndex |-> IF found THEN casc.candidateIndices[1] ELSE -1,
         finalScore |-> IF ~found THEN 0 ELSE IF capped = 0 THEN 100 ELSE capped]

\* Lines 252-265: the result row
BuildRow(rowA, lookupData, config, res, finalMatchMethod) ==
    LET base == [id |-> rowA.id,
                 _matchStatus |-> IF res.matchFound THEN "matched" ELSE "unmatched",
                 _matchScore |-> res.finalScore,
                 _matchMethod |-> finalMatchMethod,
                 _originalValue |-> IF res.matchFound THEN "Multiple Keys"
                                    ELSE "No Match"]
        withMaster ==
            ForLoop(LAMBDA newRow, n :
                        Assign(newRow, config.masterColumns[n],
                               Access(rowA, config.masterColumns[n])),
                    base, 1, Len(config.masterColumns))
    IN  ForLoop(LAMBDA newRow, n :
                    Assign(newRow, config.targetColumns[n],
                           IF res.matchFound
                           THEN Access(lookupData[res.matchIndex + 1],
                                       config.targetColumns[n])
                           ELSE NullCell),
                withMaster, 1, Len(config.targetColumns))

\* Lines 154-242 for one master row: the cascade, then the winner.
RowOutcome(rowA, lookupData, targetIndices, config) ==
    With(Cascade(rowA, lookupData, targetIndices, config, CascadeStart, 1),
         LAMBDA casc :
            With(Resolve(casc, config),
                 LAMBDA res :
                    [steps |-> casc.steps,
                     candidateIndices |-> casc.candidateIndices,
                     accumulatedScore |-> casc.accumulatedScore,
                     matchFound |-> res.matchFound,
                     matchIndex |-> res.matchIndex,
                     finalScore |-> res.finalScore]))

\* StoreRow as an inner join would have it: unmatched rows are dropped
StoreMatchedOnly(outputRows, i, newRow) ==
    IF newRow._matchStatus = "matched" THEN Append(outputRows, newRow) ELSE outputRows

\* outputRows[i] = newRow, i counted from 0
StoreRow(outputRows, i, newRow) ==
    [n \in 1..(IF i + 1 > Len(outputRows) THEN i + 1 ELSE Len(outputRows)) |->
        IF n = i + 1 THEN newRow ELSE outputRows[n]]

\* Lines 244-267: what one master row leaves in the locals of the loop.
\* finalMatchMethod is declared as EXACT and never assigned again.
RecordRow(rowA, lookupData, config, loop, i, out) ==
    LET finalMatchMethod == EXACT
        pushAi == ~out.matchFound /\ AI_SEMANTIC \in config.algorithms
                  /\ Len(config.joinKeys) = 1
    IN  [outputRows |-> StoreRow(loop.outputRows, i,
                                 BuildRow(rowA, lookupData, config, out, finalMatchMethod)),
         usedTargetIndices |-> IF out.matchIndex # -1
                               THEN loop.usedTargetIndices \cup {out.matchIndex}
                               ELSE loop.usedTargetIndices,
         aiCandidates |-> IF pushAi
                          THEN Append(loop.aiCandidates,
                                 [drivingVal |-> normalizeString(
                                                    Access(rowA, config.joinKeys[1].left),
                                                    config.normalization),
                                  rowIndex |-> i, keyIndex |-> 0])
                          ELSE loop.aiCandidates,
         trace |-> Append(loop.trace, out)]

\* MatchRow with consumption enforced: a winner that an earlier master row
\* has claimed is refused
MatchRowConsuming(drivingData, lookupData, targetIndices, config, loop, i) ==
    With(RowOutcome(drivingData[i + 1], lookupData, targetIndices, config),
         LAMBDA out :
            RecordRow(drivingData[i + 1], lookupData, config, loop, i,
                      IF out.matchIndex \in loop.usedTargetIndices
                      THEN [out EXCEPT !.matchFound = FALSE, !.matchIndex = -1,
                                       !.finalScore = 0]
                      ELSE out))

\* The body of for (let i = 0; i < drivingData.length; i++), i counted from 0.
MatchRow(drivingData, lookupData, targetIndices, config, loop, i) ==
    RecordRow(drivingData[i + 1], lookupData, config, loop, i,
              RowOutcome(drivingData[i + 1], lookupData, targetIndices, config))

MatchRows(drivingData, lookupData, targetIndices, config) ==
    ForLoop(LAMBDA loop, n :
                MatchRow(drivingData, lookupData, targetIndices, config, loop, n - 1),
            [outputRows |-> <<>>, usedTargetIndices |-> {}, aiCandidates |-> <<>>,
             trace |-> <<>>],
            1, Len(drivingData))

\* lookupData.filter((_, idx) => !usedTargetIndices.has(idx))
RECURSIVE FilterUnused(_, _, _)
FilterUnused(lookupData, usedTargetIndices, n) ==
    IF n > Len(lookupData) THEN <<>>
    ELSE IF (n - 1) \in usedTargetIndices
         THEN FilterUnused(lookupData, usedTargetIndices, n + 1)
         ELSE <<lookupData[n]>> \o FilterUnused(lookupData, usedTargetIndices, n + 1)

\* unusedTarget without the filter
unusedTargetUnfiltered(lookupData, usedTargetIndices) == lookupData

unusedTarget(lookupData, usedTargetIndices) ==
    FilterUnused(lookupData, usedTargetIndices, 1)

\* outputRows.filter(r => r._matchStatus === 'matched').length
matchedCount(outputRows) ==
    Cardinality({n \in 1..Len(outputRows) : outputRows[n]._matchStatus = "matched"})

----------------------------------------------------------------------------
(* The application outside a utility harness, and the harness outside the   *)
(* application: each specification fixes the part it does not exercise.     *)

NoCall == [fn |-> "none"]

\* const [joinConfig, setJoinConfig] = useState<JoinConfig>({ ... })
InitialThreshold == 80
InitialJoinConfig ==
    [joinKeys |-> <<[id |-> "1", left |-> "", right |-> ""]>>,
     algorithms |-> {LEVENSHTEIN},
     threshold |-> InitialThreshold,
     normalization |-> DefaultNormalization,
     masterColumns |-> <<>>,
     targetColumns |-> <<>>]

\* The locals of runJoin when no execution has started
NoRun ==
    [tableA |-> NoDataset, tableB |-> NoDataset, joinConfig |-> InitialJoinConfig,
     drivingData |-> <<>>, lookupData |-> <<>>, targetIndices |-> EmptyMap,
     outputRows |-> <<>>, usedTargetIndices |-> {}, aiCandidates |-> <<>>,
     trace |-> <<>>]

AppIdle ==
    /\ step = "upload"
    /\ tableA = NoDataset
    /\ tableB = NoDataset
    /\ joinConfig = InitialJoinConfig
    /\ results = <<>>
    /\ unmatchedTargetRows = <<>>
    /\ isMatching = FALSE
    /\ matchStats = [matched |-> 0, unmatched |-> 0]
    /\ processLogs = <<>>
    /\ pc = "idle"
    /\ run = NoRun

----------------------------------------------------------------------------
(* Specification Spec: runJoin on a loaded master table, a loaded target     *)
(* table and a join configuration, from the configuration step.             *)

DecimalDigits == <<"0", "1", "2", "3", "4", "5", "6", "7", "8", "9">>
RowId(idx) == <<"r", "o", "w", "-">> \o <<DecimalDigits[idx + 1]>>

AllColumns == <<"name", "city">>

\* The cells of the master rows the model draws from
MasterKinds ==
    {[name |-> StrCell(<<"j", "o", "n">>), city |-> StrCell(<<"N", "Y">>)],
     [name |-> StrCell(<<"J", "o", "h", "n">>), city |-> StrCell(<<"L", "A">>)],
     [name |-> NullCell]}

\* The cells of the target rows the model draws from
TargetKinds ==
    {[name |-> StrCell(<<"J", "o", "n">>), city |-> StrCell(<<"N", "Y">>)],
     [name |-> StrCell(<<"J", "a", "n">>), city |-> StrCell(<<"L", "A">>)],
     [name |-> StrCell(<<"-">>), city |-> StrCell(<<"L", "A">>)]}

\* parseCSV / parseExcel: row idx of a file gets the id `row-${idx}`
DatasetOf(cells) ==
    [isNull |-> FALSE, columns |-> AllColumns,
     data |-> [n \in 1..Len(cells) |-> Assign(cells[n], "id", RowId(n - 1))]]

SeqsUpTo(S, n) == UNION {[1..m -> S] : m \in 0..n}

MasterDatasets == {DatasetOf(cells) : cells \in SeqsUpTo(MasterKinds, MaxMasterRows)}
TargetDatasets == {DatasetOf(cells) : cells \in SeqsUpTo(TargetKinds, MaxTargetRows)}

NameKey == [id |-> "1", left |-> "name", right |-> "name"]
CityKey == [id |-> "2", left |-> "city", right |-> "city"]
KeyPairLists == {<<NameKey>>, <<NameKey, CityKey>>}

AlgorithmSets ==
    (SUBSET {EXACT, LEVENSHTEIN, PHONETIC})
        \cup {{AI_SEMANTIC}, {EXACT, AI_SEMANTIC}, {LEVENSHTEIN, AI_SEMANTIC}}

\* The slider positions the model draws from; the threshold is read by the
\* approximate scorer alone
JoinThresholds == {50, 75}
ThresholdsFor(algs) ==
    IF LEVENSHTEIN \in algs THEN JoinThresholds ELSE {InitialThreshold}

CaseSensitiveNormalization == [DefaultNormalization EXCEPT !.toLowerCase = FALSE]
NoNormalization ==
    [removeSpecialChars |-> FALSE, removeNumbers |-> FALSE,
     toLowerCase |-> FALSE, trimWhitespace |-> FALSE]

JoinConfigOf(keys, algs, t, norm, mcols, tcols) ==
    [joinKeys |-> keys, algorithms |-> algs, threshold |-> t, normalization |-> norm,
     masterColumns |-> mcols, targetColumns |-> tcols]

\* Every key-pair list and algorithm set, with all columns in the output
CascadeConfigs ==
    UNION {{JoinConfigOf(keys, algs, t, DefaultNormalization, AllColumns, AllColumns) :
                keys \in KeyPairLists, t \in ThresholdsFor(algs)} :
           algs \in AlgorithmSets}

\* Other normalization toggles
NormalizationVariants ==
    {JoinConfigOf(<<NameKey>>, algs, 75, norm, AllColumns, AllColumns) :
        algs \in {{EXACT}, {LEVENSHTEIN}},
        norm \in {CaseSensitiveNormalization, NoNormalization}}

\* Other output-column selections
OutputVariants ==
    {JoinConfigOf(<<NameKey>>, {EXACT, LEVENSHTEIN}, 75,
                  DefaultNormalization, cols[1], cols[2]) :
        cols \in {<<<<"name">>, <<"city">>>>, <<<<"city">>, <<"name">>>>,
                  <<<<>>, <<>>>>}}

JoinConfigs == CascadeConfigs \cup NormalizationVariants \cup OutputVariants

\* A master table and a target table of the one column "name", joined on it
\* by the exact and the approximate scorer at the initial threshold
SmithScenario ==
    [tableA |-> [DatasetOf(<<[name |-> StrCell(<<"j","o","n"," ","s","m","i","t","h">>)]>>)
                    EXCEPT !.columns = <<"name">>],
     tableB |-> [DatasetOf(<<[name |-> StrCell(<<"J","o","h","n"," ","S","m","i","t","h">>)],
                             [name |-> StrCell(<<"J","a","n","e"," ","D","o","e">>)]>>)
                    EXCEPT !.columns = <<"name">>],
     joinConfig |-> JoinConfigOf(<<NameKey>>, {EXACT, LEVENSHTEIN}, InitialThreshold,
                                 DefaultNormalization, <<"name">>, <<"name">>)]

\* updateKeyPair, addKeyPair: key-pair lists with a column still to select
HalfKey(col) == [id |-> "2", left |-> col, right |-> ""]
MalformedKeyPairLists ==
    {InitialJoinConfig.joinKeys,
     <<NameKey, HalfKey("")>>,
     <<NameKey, HalfKey("name")>>,
     <<[id |-> "1", left |-> "", right |-> "name"], [NameKey EXCEPT !.id = "2"]>>}

MalformedScenarios ==
    {[SmithScenario EXCEPT !.joinConfig.joinKeys = keys, !.joinConfig.algorithms = algs] :
        keys \in MalformedKeyPairLists, algs \in {{EXACT, LEVENSHTEIN}, {PHONETIC}}}

NamedScenarios == {SmithScenario} \cup MalformedScenarios

Init ==
    /\ step = "config"
    /\ \/ /\ tableA \in MasterDatasets
          /\ tableB \in TargetDatasets
          /\ joinConfig \in JoinConfigs
       \/ \E s \in NamedScenarios :
             /\ tableA = s.tableA
             /\ tableB = s.tableB
             /\ joinConfig = s.joinConfig
    /\ results = <<>>
    /\ unmatchedTargetRows = <<>>
    /\ isMatching = FALSE
    /\ matchStats = [matched |-> 0, unmatched |-> 0]
    /\ processLogs = <<>>
    /\ pc = "idle"
    /\ run = NoRun
    /\ call = NoCall
    /\ ret = <<>>

\* The test of the first key pair alone
MalformedFirstKey(config) ==
    config.joinKeys[1].left = "" \/ config.joinKeys[1].right = ""

\* joinConfig.joinKeys.some(k => !k.left || !k.right)
Malformed(config) ==
    \E k \in 1..Len(config.joinKeys) :
        config.joinKeys[k].left = "" \/ config.joinKeys[k].right = ""

\* addLog(msg): the message joins processLogs, then the caller waits
addLog(logs, msg) == Append(logs, msg)

\* The Run button, then runJoin up to its first await (lines 111-119).
\* tableA, tableB and joinConfig stay those of the render that made the call.
RunJoin ==
    /\ step = "config"
    /\ ~isMatching
    /\ ~(tableA.isNull \/ tableB.isNull \/ Malformed(joinConfig))
    /\ isMatching' = TRUE
    /\ processLogs' = addLog(<<>>, "Initializing Hierarchical Join (Master -> Target)...")
    /\ step' = "results"
    /\ run' = [NoRun EXCEPT !.tableA = tableA, !.tableB = tableB,
                            !.joinConfig = joinConfig]
    /\ pc' = "initializing"
    /\ UNCHANGED <<tableA, tableB, joinConfig, results, unmatchedTargetRows,
                   matchStats, call, ret>>

\* runJoin returning at line 112: the promise of the call resolves
RunJoinRejected ==
    /\ tableA.isNull \/ tableB.isNull \/ Malformed(joinConfig)
    /\ ret = <<>>
    /\ ret' = <<"returned">>
    /\ UNCHANGED <<appVars, call>>

\* Lines 121-124
RunJoinCapture ==
    /\ pc = "initializing"
    /\ run' = [run EXCEPT !.drivingData = run.tableA.data,
                          !.lookupData = run.tableB.data]
    /\ processLogs' = addLog(processLogs,
                             "Indexing Target Data columns for fast retrieval...")
    /\ pc' = "indexing"
    /\ UNCHANGED <<step, tableA, tableB, joinConfig, results, unmatchedTargetRows,
                   isMatching, matchStats, call, ret>>

\* Lines 126-149
RunJoinIndex ==
    /\ pc = "indexing"
    /\ run' = [run EXCEPT !.targetIndices =
                              BuildTargetIndices(run.lookupData, run.joinConfig),
                          !.outputRows = <<>>,
                          !.usedTargetIndices = {},
                          !.aiCandidates = <<>>]
    /\ processLogs' = addLog(processLogs, "Starting Hierarchical Matching...")
    /\ pc' = "starting"
    /\ UNCHANGED <<step, tableA, tableB, joinConfig, results, unmatchedTargetRows,
                   isMatching, matchStats, call, ret>>

\* RunJoinMatched with the claimed target positions taken out of the buckets
\* of the index
RunJoinMatchedShrinking(loop) ==
    /\ run' = [run EXCEPT !.outputRows = loop.outputRows,
                          !.usedTargetIndices = loop.usedTargetIndices,
                          !.aiCandidates = loop.aiCandidates,
                          !.trace = loop.trace,
                          !.targetIndices =
                              [col \in DOMAIN @ |->
                                  [key \in DOMAIN @[col] |->
                                      SelectSeq(@[col][key],
                                                LAMBDA p : p \notin loop.usedTargetIndices)]]]
    /\ IF Len(loop.aiCandidates) > 0
       THEN /\ processLogs' = addLog(processLogs, "Performing AI Semantic Analysis...")
            /\ pc' = "ai"
       ELSE /\ processLogs' = addLog(processLogs, "Analyzing Unmatched Target Data...")
            /\ pc' = "analyzing"

\* RunJoinMatched with the rows queued for the semantic fallback reported
\* as matched
RunJoinMatchedResolving(loop) ==
    /\ run' = [run EXCEPT !.outputRows =
                              [n \in 1..Len(loop.outputRows) |->
                                  IF \E c \in 1..Len(loop.aiCandidates) :
                                        loop.aiCandidates[c].rowIndex = n - 1
                                  THEN [loop.outputRows[n] EXCEPT
                                           !._matchStatus = "matched"]
                                  ELSE loop.outputRows[n]],
                          !.usedTargetIndices = loop.usedTargetIndices,
                          !.aiCandidates = loop.aiCandidates,
                          !.trace = loop.trace]
    /\ IF Len(loop.aiCandidates) > 0
       THEN /\ processLogs' = addLog(processLogs, "Performing AI Semantic Analysis...")
            /\ pc' = "ai"
       ELSE /\ processLogs' = addLog(processLogs, "Analyzing Unmatched Target Data...")
            /\ pc' = "analyzing"

\* Lines 151-275: the loop over the master rows; its progress message is due
\* every 500 rows only. Then the message of the AI branch when it is taken,
\* else the next message.
RunJoinMatched(loop) ==
    /\ run' = [run EXCEPT !.outputRows = loop.outputRows,
                          !.usedTargetIndices = loop.usedTargetIndices,
                          !.aiCandidates = loop.aiCandidates,
                          !.trace = loop.trace]
    /\ IF Len(loop.aiCandidates) > 0
       THEN /\ processLogs' = addLog(processLogs, "Performing AI Semantic Analysis...")
            /\ pc' = "ai"
       ELSE /\ processLogs' = addLog(processLogs, "Analyzing Unmatched Target Data...")
            /\ pc' = "analyzing"

RunJoinMatch ==
    /\ pc = "starting"
    /\ RunJoinMatched(MatchRows(run.drivingData, run.lookupData, run.targetIndices,
                                run.joinConfig))
    /\ UNCHANGED <<step, tableA, tableB, joinConfig, results, unmatchedTargetRows,
                   isMatching, matchStats, call, ret>>

\* Line 275 after the AI message
RunJoinAfterAi ==
    /\ pc = "ai"
    /\ processLogs' = addLog(processLogs, "Analyzing Unmatched Target Data...")
    /\ pc' = "analyzing"
    /\ UNCHANGED <<step, tableA, tableB, joinConfig, results, unmatchedTargetRows,
                   isMatching, matchStats, run, call, ret>>

\* Lines 276-279 with the flag of line 285 cleared at once
RunJoinUnusedEarly ==
    /\ pc = "analyzing"
    /\ unmatchedTargetRows' = unusedTarget(run.lookupData, run.usedTargetIndices)
    /\ processLogs' = addLog(processLogs, "Calculating Final Statistics...")
    /\ isMatching' = FALSE
    /\ pc' = "calculating"
    /\ UNCHANGED <<step, tableA, tableB, joinConfig, results, matchStats, run, call, ret>>

\* Lines 276-279
RunJoinUnused ==
    /\ pc = "analyzing"
    /\ unmatchedTargetRows' = unusedTarget(run.lookupData, run.usedTargetIndices)
    /\ processLogs' = addLog(processLogs, "Calculating Final Statistics...")
    /\ pc' = "calculating"
    /\ UNCHANGED <<step, tableA, tableB, joinConfig, results, isMatching,
                   matchStats, run, call, ret>>

\* Lines 280-284
RunJoinStats ==
    /\ pc = "calculating"
    /\ matchStats' = [matched |-> matchedCount(run.outputRows),
                      unmatched |-> Len(run.outputRows) - matchedCount(run.outputRows)]
    /\ results' = run.outputRows
    /\ processLogs' = addLog(processLogs, "Process Complete.")
    /\ pc' = "complete"
    /\ UNCHANGED <<step, tableA, tableB, joinConfig, unmatchedTargetRows,
                   isMatching, run, call, ret>>

\* Line 285
RunJoinFinish ==
    /\ pc = "complete"
    /\ isMatching' = FALSE
    /\ pc' = "done"
    /\ UNCHANGED <<step, tableA, tableB, joinConfig, results, unmatchedTargetRows,
                   matchStats, processLogs, run, call, ret>>

Next ==
    \/ RunJoin
    \/ RunJoinRejected
    \/ RunJoinCapture
    \/ RunJoinIndex
    \/ RunJoinMatch
    \/ RunJoinAfterAi
    \/ RunJoinUnused
    \/ RunJoinStats
    \/ RunJoinFinish

Spec == Init /\ [][Next]_vars

\* A run that has finished
Completed == pc = "done"

----------------------------------------------------------------------------
(* Properties of a completed run. The locals of the run (run.drivingData,    *)
(* run.lookupData, run.joinConfig, run.trace) are those the run captured.    *)

MasterPositions == 1..Len(run.drivingData)
TargetPositions == 1..Len(run.lookupData)

Matched(i) == results[i]._matchStatus = "matched"

\* The target positions (from 0) chosen as the winner of some master row
Winners == {run.trace[i].matchIndex : i \in {j \in MasterPositions : run.trace[j].matchFound}}

\* The normalized value of a cell under the configuration of the run
NormOf(row, col) == normalizeString(Access(row, col), run.joinConfig.normalization)

\* C1: a completed run has exactly one result row per master row, result i
\* built from master row i, each marked matched or unmatched, and the matched
\* and unmatched counts add up to the number of master rows.
C1_OneResultPerMasterRow ==
    Completed =>
        /\ Len(results) = Len(run.drivingData)
        /\ \A i \in MasterPositions :
              /\ results[i].id = run.drivingData[i].id
              /\ results[i]._matchStatus \in {"matched", "unmatched"}
        /\ matchStats.matched = Cardinality({i \in MasterPositions : Matched(i)})
        /\ matchStats.matched + matchStats.unmatched = Len(run.drivingData)

C1_Witness ==
    /\ Completed
    /\ Len(run.drivingData) = 2
    /\ Len(results) = 2
    /\ Matched(1)
    /\ ~Matched(2)

\* C2: no two matched result rows of one run are resolved to the same
\* target-row position.
C2_TargetClaimedAtMostOnce ==
    Completed =>
        \A i, j \in MasterPositions :
            (i < j /\ run.trace[i].matchFound /\ run.trace[j].matchFound)
                => run.trace[i].matchIndex # run.trace[j].matchIndex

\* The outcome of a master row: status, winning position and score
OutcomeOf(out) == <<out.matchFound, out.matchIndex, out.finalScore>>

\* The outcome of `rowA` in a run whose master dataset holds that row alone
SoloOutcome(rowA) ==
    OutcomeOf(MatchRows(<<rowA>>, run.lookupData, run.targetIndices,
                        run.joinConfig).trace[1])

SameKeys(i, j) ==
    \A k \in 1..Len(run.joinConfig.joinKeys) :
        NormOf(run.drivingData[i], run.joinConfig.joinKeys[k].left)
            = NormOf(run.drivingData[j], run.joinConfig.joinKeys[k].left)

\* The target positions (from 0) whose key-k value normalizes to `val`
Occurrences(k, val) ==
    {n - 1 : n \in {m \in TargetPositions :
                      NormOf(run.lookupData[m], run.joinConfig.joinKeys[k].right) = val}}

\* Some master row before row i has claimed a target row
ClaimedBefore(i) == \E j \in 1..(i - 1) : run.trace[j].matchFound

C4_ConsumedOrUnused ==
    Completed =>
        /\ unmatchedTargetRows
              = SelectSeq(run.lookupData,
                          LAMBDA row : \A w \in Winners : run.lookupData[w + 1].id # row.id)
        /\ Len(unmatchedTargetRows) + Cardinality(Winners) = Len(run.lookupData)
        /\ \A w \in Winners :
              \A n \in 1..Len(unmatchedTargetRows) :
                  unmatchedTargetRows[n] # run.lookupData[w + 1]

C4_Witness ==
    /\ Completed
    /\ Len(run.lookupData) = 2
    /\ Winners = {1}
    /\ Len(unmatchedTargetRows) = 1

\* Two cells show the same value; null and undefined both show as no value
SameCell(x, y) ==
    IF x.kind \in {"null", "undefined"} THEN y.kind \in {"null", "undefined"} ELSE x = y

\* C5: a result row holds the master row's value for each configured master
\* output column, and for each configured target output column the winner's
\* value when matched and null when unmatched.
C5_OutputColumns ==
    Completed =>
        \A i \in MasterPositions :
            /\ \A n \in 1..Len(run.joinConfig.masterColumns) :
                  LET col == run.joinConfig.masterColumns[n]
                  IN  SameCell(results[i][col], Access(run.drivingData[i], col))
            /\ \A n \in 1..Len(run.joinConfig.targetColumns) :
                  LET col == run.joinConfig.targetColumns[n]
                  IN  SameCell(results[i][col],
                               IF Matched(i)
                               THEN Access(run.lookupData[run.trace[i].matchIndex + 1], col)
                               ELSE NullCell)

\* The scorer that accepted the winner of master row i at key pair 1
AcceptedBy(i) ==
    LET stp == run.trace[i].steps[1]
    IN  IF stp.route = "bucket" THEN EXACT
        ELSE LET v == CHOOSE n \in 1..Len(stp.verdicts) :
                          stp.verdicts[n].idx = run.trace[i].matchIndex
             IN  stp.verdicts[v].by

\* C6: with one key pair, the match method of a matched result row is the
\* scorer that accepted the winner, and it is EXACT only with a score of 100.
C6_MethodNamesTheScorer ==
    (Completed /\ Len(run.joinConfig.joinKeys) = 1) =>
        \A i \in MasterPositions :
            Matched(i) =>
                /\ results[i]._matchMethod = AcceptedBy(i)
                /\ results[i]._matchMethod = EXACT => results[i]._matchScore = 100

\* C8: with a single key pair and only EXACT enabled, a master row whose
\* normalized left value occurs nowhere among the target's normalized
\* right-column values is reported unmatched.
C8_ExactOnlyZeroOccurrences ==
    (Completed /\ Len(run.joinConfig.joinKeys) = 1 /\ run.joinConfig.algorithms = {EXACT}) =>
        \A i \in MasterPositions :
            Occurrences(1, NormOf(run.drivingData[i], run.joinConfig.joinKeys[1].left)) = {}
                => ~Matched(i)

C8_Witness ==
    /\ Completed
    /\ Len(run.joinConfig.joinKeys) = 1
    /\ run.joinConfig.algorithms = {EXACT}
    /\ Len(run.drivingData) = 2
    /\ Len(run.lookupData) > 0
    /\ Matched(1)
    /\ Occurrences(1, NormOf(run.drivingData[2], run.joinConfig.joinKeys[1].left)) = {}
    /\ ~Matched(2)

\* The index of the run exists from the end of the indexing step
Indexed == pc \notin {"idle", "initializing", "indexing"}

\* C9: every target row is listed in the index bucket of its normalized
\* right-column value, the empty value included, and with the index lookup
\* enabled a master row whose first key normalizes to the empty string
\* adopts the rows of that bucket.
C9_EmptyValueIndexed ==
    /\ Indexed =>
          \A k \in 1..Len(run.joinConfig.joinKeys) :
              \A n \in TargetPositions :
                  LET col == run.joinConfig.joinKeys[k].right
                      val == NormOf(run.lookupData[n], col)
                  IN  /\ MapHas(run.targetIndices[col], val)
                      /\ \E m \in 1..Len(run.targetIndices[col][val]) :
                            run.targetIndices[col][val][m] = n - 1
    /\ Completed =>
          \A i \in MasterPositions :
              ( /\ run.joinConfig.algorithms \cap {EXACT, LEVENSHTEIN} # {}
                /\ NormOf(run.drivingData[i], run.joinConfig.joinKeys[1].left) = <<>>
                /\ Occurrences(1, <<>>) # {} )
              => run.trace[i].steps[1].route = "bucket"

\* The run of SmithScenario
SmithRun ==
    /\ run.tableA = SmithScenario.tableA
    /\ run.tableB = SmithScenario.tableB
    /\ run.joinConfig = SmithScenario.joinConfig

\* C11: master "jon smith" against targets "John Smith" and "Jane Doe", one
\* key pair on name, exact and approximate scorers, threshold 80, lower-casing,
\* trimming and special-character stripping on: the master row is matched to
\* the first target row with a score of at least 80.
C11_JonSmithMatchesJohnSmith ==
    (Completed /\ SmithRun) =>
        /\ Len(results) = 1
        /\ results[1]._matchStatus = "matched"
        /\ run.trace[1].matchIndex = 0
        /\ SameCell(Access(results[1], "name"), Access(run.lookupData[1], "name"))
        /\ results[1]._matchScore >= 80

C11_Witness ==
    /\ Completed
    /\ SmithRun
    /\ results[1]._matchStatus = "matched"
    /\ results[1]._matchScore = 90

\* The key cell of master row i at key pair k is null, undefined or absent
BlankKey(i, k) ==
    Access(run.drivingData[i], run.joinConfig.joinKeys[k].left).kind
        \in {"null", "undefined"}

\* C15: a null or undefined key cell, the cell of an absent key column
\* included, normalizes to the empty string, and the run still completes
\* with a result row for that master row.
C15_BlankKeyNormalizesToEmpty ==
    Completed =>
        \A i \in MasterPositions :
            (\E k \in 1..Len(run.joinConfig.joinKeys) : BlankKey(i, k)) =>
                /\ \A n \in 1..Len(run.trace[i].steps) :
                      BlankKey(i, run.trace[i].steps[n].k)
                          => run.trace[i].steps[n].valA = <<>>
                /\ Len(results) = Len(run.drivingData)
                /\ results[i].id = run.drivingData[i].id
                /\ results[i]._matchStatus \in {"matched", "unmatched"}

\* A master row whose first key is null and whose second key column is absent
C15_Witness ==
    /\ Completed
    /\ \E i \in MasterPositions :
          /\ Len(run.joinConfig.joinKeys) = 2
          /\ Access(run.drivingData[i], "name").kind = "null"
          /\ Access(run.drivingData[i], "city").kind = "undefined"
          /\ Len(run.trace[i].steps) = 2
          /\ run.trace[i].steps[1].valA = <<>>
          /\ run.trace[i].steps[2].valA = <<>>
          /\ results[i].id = run.drivingData[i].id

\* Some key pair of the configuration lacks its left or its right column
LacksColumn(config) ==
    \E k \in 1..Len(config.joinKeys) :
        config.joinKeys[k].left = "" \/ config.joinKeys[k].right = ""

\* C16: under a configuration with a key pair that lacks a column, no step
\* builds an index or processes a master row (the locals of runJoin stay
\* unset), and results, unused-target rows, statistics, process log, current
\* step and isMatching are left unchanged.
C16_MalformedRunRejected ==
    [][LacksColumn(joinConfig) =>
          UNCHANGED <<results, unmatchedTargetRows, matchStats, processLogs, step,
                      isMatching, run, pc>>]_vars

\* runJoin was called under such a configuration and has returned
C16_Witness ==
    /\ LacksColumn(joinConfig)
    /\ ~LacksColumn([joinConfig EXCEPT !.joinKeys = <<joinConfig.joinKeys[1]>>])
    /\ ret = <<"returned">>
    /\ run = NoRun
    /\ results = <<>>
    /\ processLogs = <<>>
    /\ step = "config"
    /\ ~isMatching

\* C18: every matched result row has an integer score from 1 to 100, and
\* every unmatched result row has the score 0.
C18_ScoreRange ==
    Completed =>
        \A i \in 1..Len(results) :
            IF Matched(i)
            THEN results[i]._matchScore \in 1..100
            ELSE results[i]._matchScore = 0

\* A row matched on two key pairs below 100, beside an unmatched row
C18_Witness ==
    /\ Completed
    /\ Len(results) = 2
    /\ Len(run.joinConfig.joinKeys) = 2
    /\ Matched(1)
    /\ results[1]._matchScore \in 1..99
    /\ ~Matched(2)
    /\ results[2]._matchScore = 0

\* The sum of the scores of the candidates that survived a scanned step
SurvivorTotal(verdicts) ==
    ForLoop(LAMBDA total, n : RatAdd(total, verdicts[n].score), Rat(0), 1, Len(verdicts))

\* What one step of the cascade adds to the total T: 100 for a bucket hit,
\* the mean of its survivors' scores for a scan with survivors
StepContribution(s) ==
    IF s.route = "bucket" THEN Rat(100)
    ELSE IF s.route = "scan" /\ Len(s.verdicts) > 0
         THEN RatDivide(SurvivorTotal(s.verdicts), Len(s.verdicts))
         ELSE Rat(0)

ContributionTotal(steps) ==
    ForLoop(LAMBDA total, n : RatAdd(total, StepContribution(steps[n])),
            Rat(0), 1, Len(steps))

\* min(100, round(T / K)), 0 read as 100
ScoreOfTotal(total, K) ==
    IF Min2(MathRound(RatDivide(total, K)), 100) = 0 THEN 100
    ELSE Min2(MathRound(RatDivide(total, K)), 100)

\* C20: the final score of a matched master row is min(100, round(T / K)), 0
\* coerced to 100, K the number of key pairs and T the sum over the steps of
\* 100 for a first-key bucket hit and of the mean of the survivors' scores
\* for a scanned step, whatever was accumulated at earlier key pairs.
C20_ScoreIsMeanOfContributions ==
    Completed =>
        \A i \in MasterPositions :
            run.trace[i].matchFound =>
                results[i]._matchScore =
                    ScoreOfTotal(ContributionTotal(run.trace[i].steps),
                                 Len(run.joinConfig.joinKeys))

----------------------------------------------------------------------------
(* Specification SpecNormalize: normalizeString applied to a cell value,    *)
(* and applied again to its own result.                                     *)

NormAlphabet == {"a", "A", "1", " ", "-", "|"}

RECURSIVE StringsUpTo(_, _)
StringsUpTo(alphabet, n) ==
    IF n = 0 THEN {<<>>}
    ELSE LET shorter == StringsUpTo(alphabet, n - 1)
         IN  shorter \cup {Append(s, c) : s \in shorter, c \in alphabet}

NormValues ==
    {NullCell, UndefinedCell, NumCell(<<"1">>)}
        \cup {StrCell(s) : s \in StringsUpTo(NormAlphabet, MaxNormLen)}

InitNormalize ==
    /\ AppIdle
    /\ call \in [fn : {"normalizeString"}, value : NormValues, config : NormalizationConfigs]
    /\ ret = <<>>

\* normalizeString(value, config)
CallNormalize ==
    /\ call.fn = "normalizeString"
    /\ ret = <<>>
    /\ ret' = <<normalizeString(call.value, call.config)>>
    /\ UNCHANGED <<call, appVars>>

\* normalizeString(normalizeString(value, config), config)
CallNormalizeAgain ==
    /\ call.fn = "normalizeString"
    /\ Len(ret) = 1
    /\ ret' = Append(ret, normalizeString(StrCell(ret[1]), call.config))
    /\ UNCHANGED <<call, appVars>>

NextNormalize == CallNormalize \/ CallNormalizeAgain

SpecNormalize == InitNormalize /\ [][NextNormalize]_vars

\* C7: normalizeString is idempotent: normalizing a normalized value again,
\* under the same toggles, returns it unchanged.
C7_NormalizeIdempotent ==
    (call.fn = "normalizeString" /\ Len(ret) = 2) => ret[2] = ret[1]

----------------------------------------------------------------------------
(* Specification SpecSimilarity: the approximate scorer. similarityPercentage*)
(* is applied to two strings, and the scan's threshold test to its result.  *)

Thresholds == 50..100

Repeat(c, n) == [i \in 1..n |-> c]

\* Pairs of strings of one length n <= MaxSimLen that agree on a prefix and
\* differ everywhere after it: every length and every edit distance occurs.
SimPairs ==
    UNION {{[a |-> Repeat("a", n), b |-> Repeat("a", k) \o Repeat("b", n - k)] :
               k \in 0..n} : n \in 0..MaxSimLen} \cup
    {[a |-> <<"j","o","n">>, b |-> <<"j","o","h","n">>],
     [a |-> <<"j","o","h","n">>, b |-> <<"j","o","n">>],
     [a |-> <<>>, b |-> <<"j","o","n">>]}

\* Every pair of strings of at most MaxSymLen letters drawn from two letters
SymPairs ==
    {[a |-> s, b |-> t] : s, t \in StringsUpTo({"a", "b"}, MaxSymLen)}

InitSimilarity ==
    /\ AppIdle
    /\ \E p \in SimPairs \cup SymPairs :
          /\ Len(p.b) = Len(p.a) \/ Len(p.a) <= 4
          /\ call = [fn |-> "similarityPercentage", a |-> p.a, b |-> p.b]
    /\ ret = <<>>

\* similarityPercentage(valA, valB)
CallSimilarity ==
    /\ call.fn = "similarityPercentage"
    /\ ret = <<>>
    /\ ret' = <<similarityPercentage(call.a, call.b)>>
    /\ UNCHANGED <<call, appVars>>

CallThreshold ==
    /\ call.fn = "similarityPercentage"
    /\ Len(ret) = 1
    /\ \E t \in Thresholds :
          ret' = Append(ret, [threshold |-> t, isMatch |-> ApproxVerdict(ret[1], t)])
    /\ UNCHANGED <<call, appVars>>

\* similarityPercentage(valB, valA), after similarityPercentage(valA, valB)
CallSimilaritySwapped ==
    /\ call.fn = "similarityPercentage"
    /\ Len(ret) = 1
    /\ ret' = <<ret[1], "swapped", similarityPercentage(call.b, call.a)>>
    /\ UNCHANGED <<call, appVars>>

NextSimilarity == CallSimilarity \/ CallThreshold \/ CallSimilaritySwapped

SpecSimilarity == InitSimilarity /\ [][NextSimilarity]_vars

\* C10: the approximate scorer gives a verdict exactly when the similarity
\* (maxLen - editDistance) * 100 / maxLen is at least the threshold.
C10_VerdictIffAtLeastThreshold ==
    (call.fn = "similarityPercentage" /\ Len(ret) = 2 /\ ret[1].longerLength > 0) =>
        (ret[2].isMatch <=>
            (ret[1].longerLength - ret[1].editDistance) * 100
                >= ret[2].threshold * ret[1].longerLength)

\* The double x is the integer n: n is its part above the binary point, and
\* nothing follows the point
FloatIsInteger(x, n) ==
    /\ FloatIntegerPart(x) = n
    /\ \A i \in 1..SignificandBits : i > SignificandBits + x.e => x.m[i] = 0

\* C12: the similarity on the 0-100 scale is 100 for two empty strings, 100
\* for a string compared with itself, and the same for (a, b) as for (b, a).
C12_SimilarityReflexiveSymmetric ==
    (call.fn = "similarityPercentage" /\ Len(ret) >= 1) =>
        /\ (call.a = <<>> /\ call.b = <<>>) => FloatIsInteger(FloatTimes(ret[1].value, 100), 100)
        /\ call.a = call.b => FloatIsInteger(FloatTimes(ret[1].value, 100), 100)
        /\ Len(ret) = 3 =>
              /\ ret[3].value = ret[1].value
              /\ FloatTimes(ret[3].value, 100) = FloatTimes(ret[1].value, 100)

C12_Witness ==
    /\ call.fn = "similarityPercentage"
    /\ Len(ret) = 3
    /\ Len(call.a) < Len(call.b)
    /\ call.a # <<>>
    /\ ret[1].editDistance = 2
    /\ ret[3].editDistance = 2

----------------------------------------------------------------------------
(* Specification SpecPhonetic: getPhoneticCode applied to a string.         *)

PhoneticAlphabet == {"a", "b", "l", "m", "1"}

InitPhonetic ==
    /\ AppIdle
    /\ call \in [fn : {"getPhoneticCode"},
                 str : StringsUpTo(PhoneticAlphabet, MaxPhoneticLen)]
    /\ ret = <<>>

\* getPhoneticCode(str)
CallPhonetic ==
    /\ call.fn = "getPhoneticCode"
    /\ ret = <<>>
    /\ ret' = <<getPhoneticCode(call.str)>>
    /\ UNCHANGED <<call, appVars>>

NextPhonetic == CallPhonetic

SpecPhonetic == InitPhonetic /\ [][NextPhonetic]_vars

\* C13: getPhoneticCode returns exactly four characters for every input:
\* the first four of the derived code, followed by '0' up to four when the
\* derived code is shorter.
C13_PhoneticCodeHasFourCharacters ==
    (call.fn = "getPhoneticCode" /\ Len(ret) = 1) =>
        /\ Len(ret[1]) = 4
        /\ \A i \in 1..4 :
              ret[1][i] = IF i <= Len(PhoneticStem(call.str))
                          THEN PhoneticStem(call.str)[i] ELSE "0"

\* A derived code shorter than four that was padded
C13_Witness ==
    /\ call.fn = "getPhoneticCode"
    /\ Len(ret) = 1
    /\ Len(PhoneticStem(call.str)) = 2
    /\ ret[1][3] = "0"
    /\ ret[1][4] = "0"

\* C14: getPhoneticCode of the empty string is the code made of '0' padding
\* alone.
C14_EmptyInputAllZero ==
    (call.fn = "getPhoneticCode" /\ call.str = <<>> /\ Len(ret) = 1) =>
        ret[1] = <<"0", "0", "0", "0">>

----------------------------------------------------------------------------
(* Specification SpecSemantic: findSemanticMatches. The remote model and    *)
(* its reply are the environment: the call is rejected, or resolves with a  *)
(* reply whose text is absent, empty, not JSON, or JSON.                    *)

SemanticValues == {"IBM", "Intl Business Machines"}

\* Array.from(new Set(values)).slice(0, limit)
RECURSIVE SemanticUnique(_)
SemanticUnique(values) ==
    IF values = <<>> THEN <<>>
    ELSE LET front == SemanticUnique(SubSeq(values, 1, Len(values) - 1))
             last == values[Len(values)]
         IN  IF \E n \in 1..Len(front) : front[n] = last THEN front
             ELSE Append(front, last)

MaxUniqueRefs == 50
MaxUniqueTargets == 20
SemanticSlice(values, limit) == SubSeq(values, 1, Min2(Len(values), limit))

\* The replies of ai.models.generateContent, and JSON.parse of their text
SemanticMatch == [target |-> "IBM", match |-> "Intl Business Machines", confidence |-> "High"]
SemanticReplies ==
    {[kind |-> "rejected"],
     [kind |-> "no text"],
     [kind |-> "text", text |-> "", json |-> [throws |-> TRUE]],
     [kind |-> "text", text |-> "Sorry, I cannot", json |-> [throws |-> TRUE]],
     [kind |-> "text", text |-> "[{\"target\":", json |-> [throws |-> TRUE]],
     [kind |-> "text", text |-> "[]", json |-> [throws |-> FALSE, value |-> <<>>]],
     [kind |-> "text", text |-> "[{...}]",
      json |-> [throws |-> FALSE, value |-> <<SemanticMatch>>]]}

InitSemantic ==
    /\ AppIdle
    /\ call \in [fn : {"findSemanticMatches"},
                 apiKey : {"", "key"},
                 referenceValues : SeqsUpTo(SemanticValues, MaxSemanticValues),
                 targetValues : SeqsUpTo(SemanticValues, MaxSemanticValues)]
    /\ ret = <<>>

\* Lines 806-810: no credential
SemanticNoKey ==
    /\ call.fn = "findSemanticMatches"
    /\ ret = <<>>
    /\ call.apiKey = ""
    /\ ret' = <<[state |-> "returned",
                 value |-> [n \in 1..Len(call.targetValues) |->
                               [target |-> call.targetValues[n], match |-> "",
                                confidence |-> "Low"]]]>>
    /\ UNCHANGED <<call, appVars>>

\* Lines 812-855: the prompt is sent
SemanticRequest ==
    /\ call.fn = "findSemanticMatches"
    /\ ret = <<>>
    /\ call.apiKey # ""
    /\ ret' = <<[state |-> "awaiting",
                 uniqueRefs |-> SemanticSlice(SemanticUnique(call.referenceValues),
                                              MaxUniqueRefs),
                 uniqueTargets |-> SemanticSlice(SemanticUnique(call.targetValues),
                                                 MaxUniqueTargets)]>>
    /\ UNCHANGED <<call, appVars>>

\* Lines 857-865: the value returned for a reply
SemanticValueOf(reply) ==
    IF reply.kind = "rejected" THEN <<>>
    ELSE IF reply.kind = "no text" \/ reply.text = "" THEN <<>>
    ELSE IF reply.json.throws THEN <<>>
    ELSE reply.json.value

SemanticReply ==
    /\ call.fn = "findSemanticMatches"
    /\ Len(ret) = 1
    /\ ret[1].state = "awaiting"
    /\ \E reply \in SemanticReplies :
          ret' = Append(ret, [state |-> "returned", reply |-> reply,
                              value |-> SemanticValueOf(reply)])
    /\ UNCHANGED <<call, appVars>>

NextSemantic == SemanticNoKey \/ SemanticRequest \/ SemanticReply

SpecSemantic == InitSemantic /\ [][NextSemantic]_vars

\* The call has returned
SemanticReturned ==
    /\ call.fn = "findSemanticMatches"
    /\ ret # <<>>
    /\ ret[Len(ret)].state = "returned"

\* C17: findSemanticMatches returns the empty array on every failure: a
\* missing API credential, a rejected external call, a reply whose text is
\* missing or is not JSON.
C17_SemanticFailureYieldsEmpty ==
    SemanticReturned =>
        LET last == ret[Len(ret)]
        IN  ( \/ call.apiKey = ""
              \/ last.reply.kind \in {"rejected", "no text"}
              \/ last.reply.json.throws )
            => last.value = <<>>

----------------------------------------------------------------------------
(* Specification SpecNav: runJoin with the user moving between the steps    *)
(* and editing the configuration, during the pauses of a run and between    *)
(* runs.                                                                    *)

NavSteps == <<"upload", "config", "results">>
StepIndex(s) == CHOOSE n \in 1..Len(NavSteps) : NavSteps[n] = s

NavAlgorithms == {EXACT, AI_SEMANTIC}

NavScenarios ==
    {[tableA |-> DatasetOf(<<[name |-> StrCell(<<"j", "o", "n">>),
                              city |-> StrCell(<<"N", "Y">>)],
                             [name |-> StrCell(<<"J", "o", "h", "n">>),
                              city |-> StrCell(<<"L", "A">>)]>>),
      tableB |-> DatasetOf(<<[name |-> StrCell(<<"J", "o", "n">>),
                              city |-> StrCell(<<"N", "Y">>)],
                             [name |-> StrCell(<<"J", "a", "n">>),
                              city |-> StrCell(<<"L", "A">>)]>>),
      joinConfig |-> JoinConfigOf(keys, {EXACT}, InitialThreshold, DefaultNormalization,
                                  AllColumns, AllColumns)] :
        keys \in {<<NameKey>>, <<NameKey, CityKey>>, <<NameKey, HalfKey("city")>>}}

InitNav ==
    /\ step = "config"
    /\ \E s \in NavScenarios :
          /\ tableA = s.tableA
          /\ tableB = s.tableB
          /\ joinConfig = s.joinConfig
    /\ results = <<>>
    /\ unmatchedTargetRows = <<>>
    /\ isMatching = FALSE
    /\ matchStats = [matched |-> 0, unmatched |-> 0]
    /\ processLogs = <<>>
    /\ pc = "idle"
    /\ run = NoRun
    /\ call = NoCall
    /\ ret = <<>>

\* StepIndicator: a step is clickable when it lies before the current step,
\* or, both tables loaded, no further than the step after it. Back, Configure
\* and Adjust Configuration are among these moves.
SetStep ==
    /\ ~tableA.isNull /\ ~tableB.isNull
    /\ \E s \in {NavSteps[n] : n \in 1..Len(NavSteps)} :
          /\ s # step
          /\ StepIndex(s) <= StepIndex(step) + 1
          /\ step' = s
    /\ UNCHANGED <<tableA, tableB, joinConfig, results, unmatchedTargetRows,
                   isMatching, matchStats, processLogs, pc, run, call, ret>>

\* toggleAlgorithm(alg), from the configuration step
ToggleAlgorithm ==
    /\ step = "config"
    /\ \E alg \in NavAlgorithms :
          joinConfig' = [joinConfig EXCEPT !.algorithms =
                            IF alg \in @ THEN @ \ {alg} ELSE @ \cup {alg}]
    /\ UNCHANGED <<step, tableA, tableB, results, unmatchedTargetRows,
                   isMatching, matchStats, processLogs, pc, run, call, ret>>

NextNav == Next \/ SetStep \/ ToggleAlgorithm

SpecNav == InitNav /\ [][NextNav]_vars

\* renderResultsStep: the statistics cards and the results table are rendered
ResultsShown == step = "results" /\ ~isMatching /\ Len(results) > 0

\* results, matchStats and unmatchedTargetRows are those of the run whose
\* locals are in run
FromRun ==
    /\ results = run.outputRows
    /\ matchStats = [matched |-> matchedCount(run.outputRows),
                     unmatched |-> Len(run.outputRows) - matchedCount(run.outputRows)]
    /\ unmatchedTargetRows = unusedTarget(run.lookupData, run.usedTargetIndices)

\* C19: while a run is in progress the results table and the statistics are
\* not shown, and whenever isMatching is false the result rows, the
\* statistics and the unused-target rows are those of one completed run
\* (or of none, before the first run), whatever the user navigates or
\* edits during the pauses of runJoin.
C19_NoPartialResults ==
    /\ isMatching => ~ResultsShown
    /\ ~isMatching =>
          IF pc = "done" THEN FromRun
          ELSE /\ pc = "idle"
               /\ results = <<>>
               /\ unmatchedTargetRows = <<>>
               /\ matchStats = [matched |-> 0, unmatched |-> 0]
    /\ ResultsShown => (pc = "done" /\ FromRun)

\* A second run at its last pause, the user back at the configuration step
\* and the configuration edited: the unused-target rows are those of the
\* second run, the result rows still those of the first.
C19_Witness ==
    /\ isMatching
    /\ pc = "calculating"
    /\ step = "config"
    /\ joinConfig # run.joinConfig
    /\ Len(results) > 0
    /\ results # run.outputRows
    /\ unmatchedTargetRows = unusedTarget(run.lookupData, run.usedTargetIndices)

----------------------------------------------------------------------------
(* Specification SpecRow: runJoin on a master table of one row, so that the *)
(* cascade of that row is all the matching there is.                        *)

RowTargetKinds ==
    TargetKinds \cup {[name |-> StrCell(<<"J", "o", "n">>), city |-> StrCell(<<"L", "A">>)]}

InitRow ==
    /\ step = "config"
    /\ tableA \in {DatasetOf(<<cells>>) : cells \in MasterKinds}
    /\ tableB \in {DatasetOf(cells) : cells \in SeqsUpTo(RowTargetKinds, MaxTargetRows)}
    /\ joinConfig \in JoinConfigs
    /\ results = <<>>
    /\ unmatchedTargetRows = <<>>
    /\ isMatching = FALSE
    /\ matchStats = [matched |-> 0, unmatched |-> 0]
    /\ processLogs = <<>>
    /\ pc = "idle"
    /\ run = NoRun
    /\ call = NoCall
    /\ ret = <<>>

\* runJoin, from the Run button to its last line
NextRow ==
    \/ RunJoin
    \/ RunJoinCapture
    \/ RunJoinIndex
    \/ RunJoinMatch
    \/ RunJoinAfterAi
    \/ RunJoinUnused
    \/ RunJoinStats
    \/ RunJoinFinish

SpecRow == InitRow /\ [][NextRow]_vars

\* No verdict
NoScore == [num |-> 0 - 1, den |-> 1]

\* The score the priority exact, phonetic, approximate gives a candidate of
\* normalized value valB against valA, NoScore when no scorer has a verdict
PriorityScore(valA, valB, algs, threshold) ==
    IF valA = valB /\ EXACT \in algs THEN Rat(100)
    ELSE IF PHONETIC \in algs /\ getPhoneticCode(valA) = getPhoneticCode(valB)
         THEN Rat(90)
    ELSE IF LEVENSHTEIN \in algs
            /\ SimilarityScore(similarityPercentage(valA, valB)).num
                   >= threshold * SimilarityScore(similarityPercentage(valA, valB)).den
         THEN SimilarityScore(similarityPercentage(valA, valB))
    ELSE NoScore

\* The score of target position idx at the step s of a cascade
StepScore(s, idx) ==
    PriorityScore(s.valA,
                  NormOf(run.lookupData[idx + 1], run.joinConfig.joinKeys[s.k].right),
                  run.joinConfig.algorithms, run.joinConfig.threshold)

SameScore(x, y) == x.num * y.den = y.num * x.den

\* The scanned steps of the cascade of master row i
ScanSteps(i) ==
    {n \in 1..Len(run.trace[i].steps) : run.trace[i].steps[n].route = "scan"}

\* C21: in a scan each candidate gets the score of the first scorer, in the
\* order exact, phonetic, approximate, that has a verdict (100, 90, the
\* similarity percentage at or above the threshold), and the candidates
\* without a verdict are dropped: the survivors are the scanned candidates
\* with a verdict, in the order scanned, each with that score.
C21_ScorerPriority ==
    Completed =>
        \A i \in MasterPositions :
            \A n \in ScanSteps(i) :
                LET s == run.trace[i].steps[n]
                    kept == SelectSeq(s.scanned, LAMBDA idx : StepScore(s, idx) # NoScore)
                IN  /\ s.candidateIndices = kept
                    /\ Len(s.verdicts) = Len(kept)
                    /\ \A m \in 1..Len(kept) :
                          /\ s.verdicts[m].idx = kept[m]
                          /\ SameScore(s.verdicts[m].score, StepScore(s, kept[m]))

\* A scan with exact and phonetic both enabled that gave one candidate 100
\* for equal values, although its phonetic code is equal too, and dropped
\* another
C21_Witness ==
    /\ Completed
    /\ {EXACT, PHONETIC} \subseteq run.joinConfig.algorithms
    /\ \E n \in ScanSteps(1) :
          LET s == run.trace[1].steps[n]
          IN  /\ Len(s.scanned) = 2
              /\ Len(s.verdicts) = 1
              /\ s.verdicts[1].score = Rat(100)
              /\ s.verdicts[1].by = EXACT

\* The index bucket of the first key pair for the value of master row i
FirstBucket(i) ==
    LET index == run.targetIndices[run.joinConfig.joinKeys[1].right]
        valA == run.trace[i].steps[1].valA
    IN  IF MapHas(index, valA) THEN index[valA] ELSE <<>>

\* C22: at the first key pair, with EXACT or LEVENSHTEIN enabled and a
\* non-empty bucket for the master's normalized value, the pool is that
\* bucket, the step scores 100 and no target row is scanned; otherwise, with
\* LEVENSHTEIN or PHONETIC enabled, every target row is scanned; otherwise
\* the pool is empty and the row is unmatched.
C22_FirstKeyBranch ==
    Completed =>
        \A i \in MasterPositions :
            LET s == run.trace[i].steps[1]
                algs == run.joinConfig.algorithms
            IN  IF algs \cap {EXACT, LEVENSHTEIN} # {} /\ FirstBucket(i) # <<>>
                THEN /\ s.route = "bucket"
                     /\ s.candidateIndices = FirstBucket(i)
                     /\ s.bestScoreForThisKey = Rat(100)
                     /\ s.scanned = <<>>
                ELSE IF algs \cap {LEVENSHTEIN, PHONETIC} # {}
                THEN /\ s.route = "scan"
                     /\ s.scanned = [n \in TargetPositions |-> n - 1]
                ELSE /\ s.scanned = <<>>
                     /\ s.candidateIndices = <<>>
                     /\ ~Matched(i)

\* The approximate scorer alone adopts a bucket and leaves a target row
\* outside it unconsidered
C22_Witness ==
    /\ Completed
    /\ run.joinConfig.algorithms = {LEVENSHTEIN}
    /\ Len(run.lookupData) = 2
    /\ run.trace[1].steps[1].route = "bucket"
    /\ run.trace[1].steps[1].candidateIndices = <<1>>
    /\ run.trace[1].steps[1].scanned = <<>>
    /\ Matched(1)

\* The candidate pool after step n of the cascade of master row i
PoolAfter(i, n) ==
    {run.trace[i].steps[n].candidateIndices[m] :
        m \in 1..Len(run.trace[i].steps[n].candidateIndices)}

\* C23: over the key-pair steps of one master row the pool only narrows, and
\* the cascade stops at the first step that leaves the pool empty: no later
\* key pair is evaluated and the row is recorded unmatched.
C23_PoolNarrows ==
    Completed =>
        \A i \in MasterPositions :
            LET steps == run.trace[i].steps
            IN  /\ Len(steps) <= Len(run.joinConfig.joinKeys)
                /\ \A n \in 1..Len(steps) :
                      /\ steps[n].k = n
                      /\ PoolAfter(i, n) \subseteq {t - 1 : t \in TargetPositions}
                      /\ n < Len(steps) =>
                            /\ PoolAfter(i, n) # {}
                            /\ PoolAfter(i, n + 1) \subseteq PoolAfter(i, n)
                /\ PoolAfter(i, Len(steps)) = {} => ~Matched(i)
                /\ PoolAfter(i, Len(steps)) # {} => Len(steps) = Len(run.joinConfig.joinKeys)

\* The first master row narrows its pool from two target rows to one; the
\* second leaves its pool empty at the first of two key pairs
C23_Witness ==
    /\ Completed
    /\ Len(run.joinConfig.joinKeys) = 2
    /\ Len(run.drivingData) = 2
    /\ Len(run.trace[1].steps) = 2
    /\ Cardinality(PoolAfter(1, 1)) = 2
    /\ Cardinality(PoolAfter(1, 2)) = 1
    /\ Len(run.trace[2].steps) = 1
    /\ PoolAfter(2, 1) = {}
    /\ ~Matched(2)

\* A list of target positions in ascending order, none twice
Ascending(list) == \A m \in 1..(Len(list) - 1) : list[m] < list[m + 1]

\* C24: index buckets and pools hold target positions in ascending order
\* without duplicates, and the winner of a matched row is the first
\* candidate of the final pool, the surviving target row of the smallest
\* position, whatever the candidates' scores.
C24_WinnerIsSmallestPosition ==
    /\ Indexed =>
          \A k \in 1..Len(run.joinConfig.joinKeys) :
              LET index == run.targetIndices[run.joinConfig.joinKeys[k].right]
              IN  \A val \in DOMAIN index : Ascending(index[val])
    /\ Completed =>
          \A i \in MasterPositions :
              /\ \A n \in 1..Len(run.trace[i].steps) :
                    Ascending(run.trace[i].steps[n].candidateIndices)
              /\ Matched(i) =>
                    /\ run.trace[i].matchIndex = run.trace[i].candidateIndices[1]
                    /\ \A t \in PoolAfter(i, Len(run.trace[i].steps)) :
                          run.trace[i].matchIndex <= t

\* Two survivors of which the second scored higher: the first is the winner
C24_Witness ==
    /\ Completed
    /\ Matched(1)
    /\ Len(run.trace[1].steps) = 1
    /\ Len(run.trace[1].steps[1].verdicts) = 2
    /\ run.trace[1].steps[1].verdicts[1].score = [num |-> 200, den |-> 4]
    /\ run.trace[1].steps[1].verdicts[2].score = [num |-> 300, den |-> 4]
    /\ run.trace[1].matchIndex = 0
    /\ results[1]._matchScore < 75

\* The normalized values valA and valB match: they are equal, or an enabled
\* scorer has a verdict for them
KeyMatches(valA, valB, algs, threshold) ==
    \/ valA = valB
    \/ PHONETIC \in algs /\ getPhoneticCode(valA) = getPhoneticCode(valB)
    \/ /\ LEVENSHTEIN \in algs
       /\ SimilarityScore(similarityPercentage(valA, valB)).num
              >= threshold * SimilarityScore(similarityPercentage(valA, valB)).den

\* C25: the winning target row of a matched result row matches the master
\* row on every configured key pair: the normalized values are equal, or
\* the phonetic scorer or the approximate scorer, when enabled, has a
\* verdict for them.
C25_WinnerMatchesEveryKey ==
    Completed =>
        \A i \in MasterPositions :
            Matched(i) =>
                \A k \in 1..Len(run.joinConfig.joinKeys) :
                    KeyMatches(NormOf(run.drivingData[i], run.joinConfig.joinKeys[k].left),
                               NormOf(run.lookupData[run.trace[i].matchIndex + 1],
                                      run.joinConfig.joinKeys[k].right),
                               run.joinConfig.algorithms, run.joinConfig.threshold)

\* A row matched on two key pairs: on the first by the approximate scorer,
\* the values differing, on the second by equal values
C25_Witness ==
    /\ Completed
    /\ Matched(1)
    /\ Len(run.trace[1].steps) = 2
    /\ run.trace[1].steps[1].route = "scan"
    /\ run.trace[1].steps[1].verdicts[1].idx = run.trace[1].matchIndex
    /\ run.trace[1].steps[1].verdicts[1].by = LEVENSHTEIN
    /\ run.trace[1].steps[1].valA #
           NormOf(run.lookupData[run.trace[1].matchIndex + 1], "name")
    /\ run.trace[1].steps[2].verdicts[1].by = EXACT

\* The code the description gives to a non-empty string of letters: the
\* uppercased first letter, then the class digits of the later consonants,
\* a digit repeating the one before it (the first letter's included) left
\* out, cut or padded to four characters
PhoneticByDescription(str) ==
    LET s0 == toUpperCase(str)
        later == MapChars(PhoneticDigit, SelectSeq(Tail(s0), NotPhoneticVowel))
        marked == CollapseRuns(<<PhoneticDigit(s0[1])>> \o later)
    IN  PadEnd(<<s0[1]>> \o Tail(marked))

\* C26: for every non-empty string of ASCII letters getPhoneticCode returns
\* the uppercased first letter followed by the class digits of all later
\* consonants, consecutive identical digits collapsed, cut or zero-padded
\* to four characters, whether or not the first letter is a vowel.
C26_PhoneticCodeOfLetters ==
    (/\ call.fn = "getPhoneticCode"
     /\ Len(ret) = 1
     /\ call.str # <<>>
     /\ \A n \in 1..Len(call.str) : IsLetter(call.str[n])) =>
        ret[1] = PhoneticByDescription(call.str)

----------------------------------------------------------------------------
(* Specification SpecLevenshtein: levenshteinDistance applied to a pair of  *)
(* strings.                                                                 *)

InitLevenshtein ==
    /\ AppIdle
    /\ call \in [fn : {"levenshteinDistance"},
                 a : StringsUpTo({"a", "b"}, MaxSymLen),
                 b : StringsUpTo({"a", "b"}, MaxSymLen)]
    /\ ret = <<>>

\* levenshteinDistance(a, b)
CallLevenshtein ==
    /\ call.fn = "levenshteinDistance"
    /\ ret = <<>>
    /\ ret' = <<levenshteinDistance(call.a, call.b)>>
    /\ UNCHANGED <<call, appVars>>

SpecLevenshtein == InitLevenshtein /\ [][CallLevenshtein]_vars

\* The least number of single-character insertions, deletions and
\* substitutions that turn a into b
RECURSIVE EditDistance(_, _)
EditDistance(a, b) ==
    IF a = <<>> THEN Len(b)
    ELSE IF b = <<>> THEN Len(a)
    ELSE Min2(EditDistance(Tail(a), Tail(b)) + (IF Head(a) = Head(b) THEN 0 ELSE 1),
              Min2(EditDistance(Tail(a), b) + 1,
                   EditDistance(a, Tail(b)) + 1))

\* C27: levenshteinDistance(a, b) is the classic edit distance between a
\* and b, the least number of single-character insertions, deletions and
\* substitutions of cost 1 each, for all strings, the empty one included.
C27_LevenshteinIsEditDistance ==
    (call.fn = "levenshteinDistance" /\ Len(ret) = 1) =>
        ret[1] = EditDistance(call.a, call.b)

\* Two non-empty strings of different lengths at distance 2: one character
\* inserted and one substituted
C27_Witness ==
    /\ call.fn = "levenshteinDistance"
    /\ Len(ret) = 1
    /\ call.a = <<"b", "a", "b">>
    /\ call.b = <<"a", "a">>
    /\ ret[1] = 2

\* The master positions (from 0) a run queues for the semantic fallback
QueuedPositions == {run.aiCandidates[c].rowIndex : c \in 1..Len(run.aiCandidates)}

\* The configuration of the run with AI_SEMANTIC switched the other way
SemanticToggled ==
    [run.joinConfig EXCEPT !.algorithms =
        IF AI_SEMANTIC \in @ THEN @ \ {AI_SEMANTIC} ELSE @ \cup {AI_SEMANTIC}]

\* What a run of the captured tables under config sets: the result rows,
\* the unused-target rows and the statistics
OutcomeOfLoop(loop) ==
    [results |-> loop.outputRows,
     unmatchedTargetRows |-> unusedTarget(run.lookupData, loop.usedTargetIndices),
     matchStats |-> [matched |-> matchedCount(loop.outputRows),
                     unmatched |-> Len(loop.outputRows) - matchedCount(loop.outputRows)]]

OutcomeUnder(config) ==
    OutcomeOfLoop(MatchRows(run.drivingData, run.lookupData,
                            BuildTargetIndices(run.lookupData, config), config))

\* C28: a master row is queued for the semantic fallback exactly when its
\* cascade found no match, AI_SEMANTIC is enabled and exactly one key pair
\* is configured; a queued row is recorded as unmatched, and the result
\* rows, the unused-target rows and the statistics of the run are those of
\* the same run with AI_SEMANTIC switched the other way.
C28_SemanticQueueLeavesResults ==
    Completed =>
        /\ \A i \in MasterPositions :
              (i - 1) \in QueuedPositions <=>
                  /\ ~run.trace[i].matchFound
                  /\ AI_SEMANTIC \in run.joinConfig.algorithms
                  /\ Len(run.joinConfig.joinKeys) = 1
        /\ \A i \in MasterPositions :
              (i - 1) \in QueuedPositions => results[i]._matchStatus = "unmatched"
        /\ [results |-> results, unmatchedTargetRows |-> unmatchedTargetRows,
            matchStats |-> matchStats] = OutcomeUnder(SemanticToggled)

\* A run with AI_SEMANTIC enabled and one key pair that matched its first
\* master row and queued its second
C28_Witness ==
    /\ Completed
    /\ AI_SEMANTIC \in run.joinConfig.algorithms
    /\ Len(run.drivingData) = 2
    /\ Matched(1)
    /\ QueuedPositions = {1}
    /\ matchStats = [matched |-> 1, unmatched |-> 1]

----------------------------------------------------------------------------
(* Specification SpecPair: runJoin on a master table of two rows, which may *)
(* look up the same bucket of the index.                                    *)

PairConfigs ==
    {JoinConfigOf(keys, algs, 75, DefaultNormalization, AllColumns, AllColumns) :
        keys \in KeyPairLists,
        algs \in {{EXACT}, {EXACT, LEVENSHTEIN}, {PHONETIC}, {EXACT, AI_SEMANTIC}}}

InitPair ==
    /\ step = "config"
    /\ tableA \in {DatasetOf(cells) : cells \in [1..2 -> MasterKinds]}
    /\ tableB \in TargetDatasets
    /\ joinConfig \in PairConfigs
    /\ results = <<>>
    /\ unmatchedTargetRows = <<>>
    /\ isMatching = FALSE
    /\ matchStats = [matched |-> 0, unmatched |-> 0]
    /\ processLogs = <<>>
    /\ pc = "idle"
    /\ run = NoRun
    /\ call = NoCall
    /\ ret = <<>>

SpecPair == InitPair /\ [][NextRow]_vars

\* The matching pass is over
PassedMatching == pc \in {"ai", "analyzing", "calculating", "complete", "done"}

\* The data the run reads is the data of the tables, the index is the one
\* built from the target data, and each master row that adopted a bucket
\* has the whole bucket of that index as its pool
FrameKept ==
    /\ pc \notin {"idle", "initializing"} =>
          /\ run.drivingData = tableA.data
          /\ run.lookupData = tableB.data
    /\ Indexed => run.targetIndices = BuildTargetIndices(run.lookupData, run.joinConfig)
    /\ PassedMatching =>
          \A i \in MasterPositions :
              run.trace[i].steps[1].route = "bucket" =>
                  run.trace[i].steps[1].candidateIndices = FirstBucket(i)

\* C29: no step of runJoin modifies the master or the target dataset, and
\* once the target index is built its buckets stay as built throughout the
\* matching pass and after it, so every master row looks up the same index.
C29_DatasetsAndIndexUnmodified ==
    /\ []FrameKept
    /\ [][/\ tableA' = tableA
          /\ tableB' = tableB
          /\ (Indexed /\ pc' # "initializing") =>
                 run'.targetIndices = run.targetIndices]_vars

\* Two master rows adopted the same bucket, the second after the first had
\* claimed its position, and the bucket is still in the index
C29_Witness ==
    /\ PassedMatching
    /\ run.trace[1].steps[1].route = "bucket"
    /\ run.trace[2].steps[1].route = "bucket"
    /\ run.trace[1].matchIndex = 0
    /\ run.trace[2].matchIndex = 0
    /\ FirstBucket(1) = <<0, 1>>
    /\ FirstBucket(2) = <<0, 1>>

----------------------------------------------------------------------------
(* Specification SpecKeys: the key pairs of the configuration under edit,   *)
(* from the initial configuration, the two tables loaded.                   *)

\* Math.random().toString(36).substr(2, 9): nine base-36 digits per call,
\* taken to differ from the ids of the pairs in the list
GeneratedIds == <<"k3x9q2m7a", "p8d4w1z6c", "t5r0v2y8h", "b7n1j6f3s">>

IdsOf(keys) == {keys[n].id : n \in 1..Len(keys)}

\* removeKeyPair without the test of line 66
removeKeyPairUnguarded(config, id) ==
    [config EXCEPT !.joinKeys = SelectSeq(@, LAMBDA k : k.id # id)]

\* setJoinConfig(prev => ({...prev, joinKeys: [...prev.joinKeys, {id, left: '', right: ''}]}))
addKeyPair(config, id) ==
    [config EXCEPT !.joinKeys = Append(@, [id |-> id, left |-> "", right |-> ""])]

\* if (joinConfig.joinKeys.length === 1) return; else the pairs of another id
removeKeyPair(config, id) ==
    IF Len(config.joinKeys) = 1 THEN config
    ELSE [config EXCEPT !.joinKeys = SelectSeq(@, LAMBDA k : k.id # id)]

\* prev.joinKeys.map(k => k.id === id ? { ...k, [side]: val } : k)
updateKeyPair(config, id, side, val) ==
    [config EXCEPT !.joinKeys =
        [n \in 1..Len(@) |-> IF @[n].id = id THEN [@[n] EXCEPT ![side] = val] ELSE @[n]]]

InitKeys ==
    /\ step = "config"
    /\ tableA = SmithScenario.tableA
    /\ tableB = SmithScenario.tableB
    /\ joinConfig = InitialJoinConfig
    /\ results = <<>>
    /\ unmatchedTargetRows = <<>>
    /\ isMatching = FALSE
    /\ matchStats = [matched |-> 0, unmatched |-> 0]
    /\ processLogs = <<>>
    /\ pc = "idle"
    /\ run = NoRun
    /\ call = NoCall
    /\ ret = <<>>

ColumnsOf(table) == {table.columns[c] : c \in 1..Len(table.columns)}

KeysFrame ==
    UNCHANGED <<step, tableA, tableB, results, unmatchedTargetRows, isMatching,
                matchStats, processLogs, pc, run, ret>>

\* Add Fallback Match
ClickAddKeyPair ==
    /\ Len(joinConfig.joinKeys) < MaxKeyPairs
    /\ \E n \in 1..MaxKeyPairs :
          /\ GeneratedIds[n] \notin IdsOf(joinConfig.joinKeys)
          /\ joinConfig' = addKeyPair(joinConfig, GeneratedIds[n])
          /\ call' = [fn |-> "addKeyPair", id |-> GeneratedIds[n]]
    /\ KeysFrame

\* removeKeyPair(keyPair.id) for a pair of the list
ClickRemoveKeyPair ==
    /\ \E id \in IdsOf(joinConfig.joinKeys) :
          /\ joinConfig' = removeKeyPair(joinConfig, id)
          /\ call' = [fn |-> "removeKeyPair", id |-> id]
    /\ KeysFrame

\* The Left Key or Right Key select of a pair: no column, or a column of
\* the table of that side
SelectKeyColumn ==
    /\ \E id \in IdsOf(joinConfig.joinKeys), side \in {"left", "right"} :
          \E val \in {""} \cup ColumnsOf(IF side = "left" THEN tableA ELSE tableB) :
              /\ joinConfig' = updateKeyPair(joinConfig, id, side, val)
              /\ call' = [fn |-> "updateKeyPair", id |-> id, side |-> side, val |-> val]
    /\ KeysFrame

NextKeys == ClickAddKeyPair \/ ClickRemoveKeyPair \/ SelectKeyColumn

SpecKeys == InitKeys /\ [][NextKeys]_vars

\* The position of the pair of this id
KeyPosition(keys, id) == CHOOSE n \in 1..Len(keys) : keys[n].id = id

\* The pairs of keys that are still in after, by id, are in the same order
OrderKept(keys, after) ==
    \A m, n \in 1..Len(after) :
        (m < n /\ {after[m].id, after[n].id} \subseteq IdsOf(keys)) =>
            KeyPosition(keys, after[m].id) < KeyPosition(keys, after[n].id)

\* C30: after any sequence of addKeyPair, removeKeyPair and updateKeyPair
\* from the initial configuration the configuration holds at least one key
\* pair; removeKeyPair on the only pair leaves the configuration unchanged;
\* and an operation keeps the remaining pairs in their order, a removal
\* keeping every other pair as it was.
C30_KeyPairsNonEmptyAndOrdered ==
    /\ [](Len(joinConfig.joinKeys) >= 1)
    /\ [][/\ (call'.fn = "removeKeyPair" /\ Len(joinConfig.joinKeys) = 1) =>
                 joinConfig' = joinConfig
          /\ OrderKept(joinConfig.joinKeys, joinConfig'.joinKeys)
          /\ call'.fn = "removeKeyPair" =>
                 \A n \in 1..Len(joinConfig.joinKeys) :
                     joinConfig.joinKeys[n].id # call'.id =>
                         \E m \in 1..Len(joinConfig'.joinKeys) :
                             joinConfig'.joinKeys[m] = joinConfig.joinKeys[n]]_vars

\* removeKeyPair has just been called on the only pair of a configuration
\* that held more pairs before, and the pair is still there
C30_Witness ==
    /\ call.fn = "removeKeyPair"
    /\ Len(joinConfig.joinKeys) = 1
    /\ joinConfig.joinKeys[1].id = call.id
    /\ call.id # "1"
    /\ joinConfig.joinKeys[1].left = "name"

====
